---- MODULE Spec2Model ----
(***************************************************************************)
(* Saga orchestration of a VM migration (src/lambdas): the migration       *)
(* record store, the event publisher, the correlation context, the ingress *)
(* handler, the five phase executors and the rollback handler.             *)
(*                                                                         *)
(* Every lambda invocation is one action.  A phase executor performs at    *)
(* most one record write and never reads the record, so an invocation is   *)
(* atomic with respect to the store.  Python dicts are functions from      *)
(* keys to values; a missing key is a key outside DOMAIN.                  *)
(***************************************************************************)
EXTENDS Integers, Sequences, FiniteSets, TLC

VARIABLES
    store,       \* DynamoDB table: migrationId -> item (empty function: no item)
    bus,         \* EventBridge bus: the set of entries published so far
    nGen,        \* number of correlation IDs generated so far (uuid4 stand-in)
    nInv,        \* number of lambda invocations so far
    jobs,        \* MGN: launch/cutover jobs started, as [mid, vm, kind]
    stopped,     \* MGN: source servers for which discontinue_from_launch was called
    terminated,  \* EC2: instances for which terminate_instances was called
    inv          \* the last invocation: handler, trigger, outcome, what it wrote
                 \* and published, its response and its collaborator calls

vars == <<store, bus, nGen, nInv, jobs, stopped, terminated, inv>>

----------------------------------------------------------------------------
(* Bounds *)

\* Invocations in one behaviour of the saga (Spec)
MaxInv == 3

\* Invocations in one behaviour with store and bus outages (SpecFaults)
MaxFaultInv == 2

\* Messages in one batch delivered to ingress
MaxBatch == 2

\* The longest list of cutover steps
MaxSteps == 3

Ids == {"m1", "m2"}

----------------------------------------------------------------------------
(* Python dict helpers *)

NoneVal == "None"

Has(d, k) == k \in DOMAIN d

Get(d, k) == IF k \in DOMAIN d THEN d[k] ELSE NoneVal

GetOr(d, k, dflt) == IF k \in DOMAIN d THEN d[k] ELSE dflt

\* dict(a); a.update(b): the keys of b win
Update(a, b) == b @@ a

\* The set S with every element brought to TLC's normal form by a comparison:
\* the inputs of an action are values shared by the workers.
Canonical(S) == {x \in S : x = x}

EmptyDict == [k \in {} |-> NoneVal]

Truthy(v) == v # NoneVal /\ v # ""

----------------------------------------------------------------------------
(* common/correlation.py *)

generate_correlation_id(n) == "mig-" \o ToString(n)

\* The event-level field, then detail.correlation_id, then the
\* X-Correlation-ID header; otherwise a newly generated ID.
\* An extraction that looks at the header before the detail
HeaderFirst(event) ==
    IF Has(event, "correlation_id") THEN event["correlation_id"]
    ELSE IF Has(event, "headers") /\ Truthy(Get(event["headers"], "X-Correlation-ID"))
         THEN event["headers"]["X-Correlation-ID"]
    ELSE IF Has(event, "detail") /\ Has(event["detail"], "correlation_id")
         THEN event["detail"]["correlation_id"]
    ELSE NoneVal

FoundCorrelationId(event) ==
    IF Has(event, "correlation_id") THEN event["correlation_id"]
    ELSE IF Has(event, "detail") /\ Has(event["detail"], "correlation_id")
         THEN event["detail"]["correlation_id"]
    ELSE IF Has(event, "headers") /\ Truthy(Get(event["headers"], "X-Correlation-ID"))
         THEN event["headers"]["X-Correlation-ID"]
    ELSE NoneVal

\* None of the three returns of extract_correlation_id is taken
Generates(event) ==
    /\ ~Has(event, "correlation_id")
    /\ ~(Has(event, "detail") /\ Has(event["detail"], "correlation_id"))
    /\ ~(Has(event, "headers") /\ Truthy(Get(event["headers"], "X-Correlation-ID")))

extract_correlation_id(event, n) ==
    IF Generates(event) THEN generate_correlation_id(n + 1)
    ELSE FoundCorrelationId(event)

\* An injection that sets the event-level field
InjectAtEventLevel(event, correlation_id) ==
    Update(event, [correlation_id |-> correlation_id])

inject_correlation_id(event, correlation_id) ==
    LET d == IF Has(event, "detail") THEN event["detail"] ELSE EmptyDict
    IN  Update(event, [detail |-> Update(d, [correlation_id |-> correlation_id])])

----------------------------------------------------------------------------
(* common/dynamodb_helper.py *)

NoItem == EmptyDict

Exists(st, mid) == DOMAIN st[mid] # {}

\* put_item: the whole item is replaced
save_migration_state(st, mid, state, now) ==
    [st EXCEPT ![mid] =
        [migrationId      |-> mid,
         status           |-> GetOr(state, "status", "PENDING"),
         wave             |-> Get(state, "wave"),
         appName          |-> Get(state, "appName"),
         source           |-> Get(state, "source"),
         target           |-> Get(state, "target"),
         environment      |-> Get(state, "environment"),
         updatedAt        |-> now,
         executionDetails |-> GetOr(state, "executionDetails", EmptyDict),
         correlationId    |-> Get(state, "correlationId")]]

\* A variant that keeps the replaced executionDetails under "previous"
ArchivingUpdate(st, mid, status, execution_details, now) ==
    LET old == st[mid]
        set == [migrationId |-> mid, status |-> status, updatedAt |-> now]
        det == IF DOMAIN execution_details # {}
               THEN [executionDetails |->
                        Update([previous |-> GetOr(old, "executionDetails", EmptyDict)],
                               execution_details)]
               ELSE EmptyDict
    IN  [st EXCEPT ![mid] = Update(Update(old, set), det)]

\* An update that also stamps updatedAt on every other item of the table
StampingAll(st, mid, status, execution_details, now) ==
    LET set == [migrationId |-> mid, status |-> status, updatedAt |-> now]
        det == IF DOMAIN execution_details # {}
               THEN [executionDetails |-> execution_details]
               ELSE [k \in {} |-> now]
    IN  [m \in DOMAIN st |->
            IF m = mid THEN det @@ set @@ st[m]
            ELSE IF DOMAIN st[m] # {} THEN [updatedAt |-> "stamped"] @@ st[m]
            ELSE st[m]]

\* update_item: SET #status, updatedAt and, for a non-empty execution_details,
\* SET executionDetails = :details.  update_item creates the item when the key
\* has none.
update_migration_status(st, mid, status, execution_details, now) ==
    LET old == st[mid]
        set == [migrationId |-> mid, status |-> status, updatedAt |-> now]
        det == IF DOMAIN execution_details # {}
               THEN [executionDetails |-> execution_details]
               ELSE EmptyDict
    IN  [st EXCEPT ![mid] = Update(Update(old, set), det)]

----------------------------------------------------------------------------
(* common/errors.py: MigrationError.to_dict() *)

to_dict(error_code, message, details) ==
    [error_code |-> error_code, message |-> message, details |-> details]

----------------------------------------------------------------------------
(* common/eventbridge_helper.py *)

Entry(detail_type, detail, source) ==
    [DetailType |-> detail_type, Source |-> source, Detail |-> detail]

\* put_events: the entry is on the bus and an event id is returned when the bus
\* reports no failed entry (busOk); otherwise publish_event raises.
publish_event(detail_type, detail, source, busOk) ==
    IF busOk THEN {Entry(detail_type, detail, source)} ELSE {}

success_event_detail(migration_id, correlation_id, details, now) ==
    Update([migrationId   |-> migration_id,
            correlationId |-> correlation_id,
            status        |-> "SUCCESS",
            timestamp     |-> now], details)

failure_event_detail(migration_id, correlation_id, error_code, error_message, details, now) ==
    Update([migrationId   |-> migration_id,
            correlationId |-> correlation_id,
            status        |-> "FAILED",
            errorCode     |-> error_code,
            errorMessage  |-> error_message,
            timestamp     |-> now], details)

status_event_detail(migration_id, correlation_id, current_step, status, details, now) ==
    Update([migrationId   |-> migration_id,
            correlationId |-> correlation_id,
            currentStep   |-> current_step,
            status        |-> status,
            timestamp     |-> now], details)

publish_success_event(migration_id, correlation_id, details, now, busOk) ==
    publish_event("MigrationSucceeded",
                  success_event_detail(migration_id, correlation_id, details, now),
                  "migration.orchestration", busOk)

publish_failure_event(migration_id, correlation_id, error_code, error_message, details, now, busOk) ==
    publish_event("MigrationFailed",
                  failure_event_detail(migration_id, correlation_id, error_code,
                                       error_message, details, now),
                  "migration.orchestration", busOk)

publish_status_event(migration_id, correlation_id, current_step, status, details, now, busOk) ==
    publish_event("MigrationStatusUpdated",
                  status_event_detail(migration_id, correlation_id, current_step,
                                      status, details, now),
                  "migration.orchestration", busOk)

\* What a lambda receives for a bus entry: the EventBridge envelope.
Envelope(e) ==
    [source |-> e.Source, detail |-> e.Detail] @@ ("detail-type" :> e.DetailType)

----------------------------------------------------------------------------
(* Invocation plumbing *)

\* datetime.utcnow().isoformat(): the value of a timestamp is not modelled
Now == "utcnow"

NoErr == EmptyDict

IsErr(e) == DOMAIN e # {}

\* Trigger payloads (spec section 6: one event per phase, optional fields may
\* be absent)
BasePayload(m) ==
    [migrationId |-> m, appName |-> "app", source |-> "azure",
     target |-> "aws", environment |-> "prod", wave |-> "w1"]

With(d, k, v) == Update(d, k :> v)

Without(d, k) == [x \in DOMAIN d \ {k} |-> d[x]]

VmOf(m) == "vm-" \o m

InstanceOf(m) == "i-" \o m

CallerCid(m) == "cid-" \o m

\* An event handed to a lambda directly, with or without an event-level
\* correlation_id
DirectEvent(detail, corr) ==
    IF corr
    THEN [detail |-> detail, correlation_id |-> CallerCid(detail["migrationId"])]
    ELSE [detail |-> detail]

Delivered(detail_type) == {Envelope(e) : e \in {x \in bus : x.DetailType = detail_type}}

\* The environments of the two specifications: the migrations that are
\* submitted, the outages that may be injected (collaborator outages raise the
\* phases' typed errors; "store" fails the record write), whether the bus may
\* reject an entry, and the number of invocations and of messages in a batch.
Saga ==
    [ids |-> {"m1"}, faults |-> {"none", "aws", "mgn", "ec2", "mgn+ec2"},
     busOk |-> {TRUE}, cap |-> MaxInv, batch |-> 1]

Outages ==
    [ids |-> {"m1"}, faults |-> {"none", "aws", "mgn", "ec2", "mgn+ec2", "store"},
     busOk |-> BOOLEAN, cap |-> MaxFaultInv, batch |-> 1]

\* Whether the outage hits the service
Down(fault, service) ==
    \/ fault = service
    \/ fault = "mgn+ec2" /\ service \in {"mgn", "ec2"}

\* The statements that follow the record write of a handler run only when the
\* write did not raise: published is what they publish
PublishedRegardless(storeOk, published) == published

AfterWrite(storeOk, published) == IF storeOk THEN published ELSE {}

\* The effect of one invocation: r is what the handler computed
Invoke(E, handler, via, event, r) ==
    /\ nInv < E.cap
    /\ nInv' = nInv + 1
    /\ nGen' = IF Generates(event) THEN nGen + 1 ELSE nGen
    /\ store' = r.st
    /\ bus' = bus \cup r.pubs
    /\ jobs' = r.jobs
    /\ stopped' = r.stopped
    /\ terminated' = r.terminated
    /\ inv' = [handler       |-> handler,
               via           |-> via,
               mid           |-> Get(GetOr(event, "detail", EmptyDict), "migrationId"),
               cause         |-> Get(GetOr(event, "detail", EmptyDict), "errorCode"),
               correlationId |-> extract_correlation_id(event, nGen),
               outcome       |-> r.outcome,
               wrote         |-> r.wrote,
               published     |-> r.pubs,
               response      |-> r.resp,
               calls         |-> r.calls,
               attempts      |-> IF Has(r, "attempts") THEN r.attempts ELSE << >>,
               records       |-> << >>]

----------------------------------------------------------------------------
(* validate_input.py *)

RequiredFields == <<"migrationId", "appName", "source", "target", "environment", "wave">>

\* The first required field that is missing, or NoneVal
RECURSIVE FirstMissing(_, _)
FirstMissing(payload, i) ==
    IF i > Len(RequiredFields) THEN NoneVal
    ELSE IF ~Has(payload, RequiredFields[i]) THEN RequiredFields[i]
    ELSE FirstMissing(payload, i + 1)

\* The values of a payload that are no str: None, a number, an object
NonStrings == {NoneVal, "<int 3>", "<dict>"}

\* isinstance(payload[field], str)
IsStr(v) == v \notin NonStrings

\* A validation that looks only at the presence of the fields
PresenceOnly(payload, i) ==
    LET f == FirstMissing(payload, i)
    IN  IF f = NoneVal THEN NoErr
        ELSE to_dict("VALIDATION_ERROR", "Missing required field", [field |-> f])

\* The loop over required_fields, from the i-th field on: the first field that
\* is missing or is no str raises
RECURSIVE FirstViolation(_, _)
FirstViolation(payload, i) ==
    IF i > Len(RequiredFields) THEN NoErr
    ELSE IF ~Has(payload, RequiredFields[i])
         THEN to_dict("VALIDATION_ERROR", "Missing required field",
                      [field |-> RequiredFields[i]])
    ELSE IF ~IsStr(payload[RequiredFields[i]])
         THEN to_dict("VALIDATION_ERROR", "Invalid type for field",
                      [field |-> RequiredFields[i], expected |-> "string"])
    ELSE FirstViolation(payload, i + 1)

validate_payload_content(payload) == FirstViolation(payload, 1)

\* check_aws_prerequisites calls EC2 only for a subnetId or securityGroupIds
check_aws_prerequisites(payload, fault) ==
    IF fault = "aws" /\ (Has(payload, "subnetId") \/ Has(payload, "securityGroupIds"))
    THEN to_dict("PREREQUISITE_ERROR", "AWS resource verification failed",
                 [resource |-> "ec2"])
    ELSE NoErr

check_mgn_prerequisites(fault) ==
    IF fault = "mgn"
    THEN to_dict("PREREQUISITE_ERROR", "MGN service check failed", [service |-> "mgn"])
    ELSE NoErr

\* The error of the last check that fails
LastErr(errs) ==
    IF \E i \in 1..Len(errs) : DOMAIN errs[i] # {}
    THEN errs[CHOOSE i \in 1..Len(errs) :
                  DOMAIN errs[i] # {} /\ \A j \in (i + 1)..Len(errs) : DOMAIN errs[j] = {}]
    ELSE EmptyDict

\* The first error raised on the way to the record write
FirstErr(errs) ==
    IF \E i \in 1..Len(errs) : IsErr(errs[i])
    THEN errs[CHOOSE i \in 1..Len(errs) :
                  IsErr(errs[i]) /\ \A j \in 1..(i - 1) : ~IsErr(errs[j])]
    ELSE NoErr

validate_input(event, fault, busOk) ==
    LET detail == GetOr(event, "detail", EmptyDict)
        correlation_id == extract_correlation_id(event, nGen)
        migration_id == Get(detail, "migrationId")
        e == FirstErr(<<validate_payload_content(detail),
                        check_aws_prerequisites(detail, fault),
                        check_mgn_prerequisites(fault)>>)
        storeOk == fault # "store"
        saved == save_migration_state(store, migration_id,
                     Update(detail, [status |-> "VALIDATED",
                                     correlationId |-> correlation_id]), Now)
    IN  [jobs |-> jobs, stopped |-> stopped, terminated |-> terminated,
         calls |-> << >>,
         st |-> IF ~IsErr(e) /\ storeOk THEN saved ELSE store,
         wrote |-> ~IsErr(e) /\ storeOk,
         pubs |->
            IF IsErr(e)
            THEN publish_failure_event(GetOr(detail, "migrationId", "unknown"),
                     correlation_id, e.error_code, e.message, EmptyDict, Now, busOk)
            ELSE AfterWrite(storeOk,
                     publish_status_event(migration_id, correlation_id,
                     "validate_input", "SUCCESS", EmptyDict, Now, busOk)),
         outcome |-> IF IsErr(e) THEN "typed"
                     ELSE IF storeOk /\ busOk THEN "success" ELSE "untyped",
         resp |->
            IF IsErr(e) THEN [statusCode |-> 400, body |-> e]
            ELSE IF storeOk /\ busOk
            THEN [statusCode |-> 200,
                  body |-> [migrationId |-> migration_id, status |-> "VALIDATED"]]
            ELSE [statusCode |-> 500,
                  body |-> [error |-> "Internal validation error"]]]

ValidateFaults == {"none", "aws", "mgn", "store"}

ValidateEvents(ids) ==
    Canonical(
        {DirectEvent(p, corr) :
            p \in UNION {{BasePayload(m),
                          Without(BasePayload(m), "source"),
                          With(BasePayload(m), "subnetId", "subnet-1")} : m \in ids},
            corr \in BOOLEAN})

ValidateInputDirect(E) ==
    \E event \in ValidateEvents(E.ids),
       fault \in E.faults \cap ValidateFaults, busOk \in E.busOk :
        Invoke(E, "validate_input", "direct", event,
               validate_input(event, fault, busOk))

ValidateInputFromBus(E) ==
    \E event \in Delivered("MigrationRequested"),
       fault \in E.faults \cap ValidateFaults, busOk \in E.busOk :
        Invoke(E, "validate_input", "bus", event,
               validate_input(event, fault, busOk))

----------------------------------------------------------------------------
(* prepare_source.py *)

\* validate_source_readiness: sourceVmId and source present and truthy
validate_source_readiness(payload) ==
    /\ Truthy(Get(payload, "sourceVmId"))
    /\ Truthy(Get(payload, "source"))

prepare_azure_source(payload) ==
    [vmId |-> Get(payload, "sourceVmId"), agentInstalled |-> "True",
     snapshotCreated |-> "True", readinessValidated |-> "True", preparedAt |-> Now]

prepare_source_with_mgn(payload) ==
    [mgn_integrated |-> "True", source_servers_found |-> "1", preparedAt |-> Now]

prepare_source(event, fault, busOk) ==
    LET detail == GetOr(event, "detail", EmptyDict)
        correlation_id == extract_correlation_id(event, nGen)
        migration_id == Get(detail, "migrationId")
        azure == Get(detail, "source") = "azure"
        e == IF ~validate_source_readiness(detail)
             THEN to_dict("SOURCE_PREPARATION_ERROR",
                          "Source VM is not ready for migration", EmptyDict)
             ELSE IF ~azure /\ fault = "mgn"
             THEN to_dict("SOURCE_PREPARATION_ERROR", "MGN integration failed",
                          [service |-> "mgn"])
             ELSE NoErr
        preparation_result == IF azure THEN prepare_azure_source(detail)
                              ELSE prepare_source_with_mgn(detail)
        storeOk == fault # "store"
        updated == update_migration_status(store, migration_id, "SOURCE_PREPARED",
                       [sourcePreparation |-> preparation_result], Now)
    IN  [jobs |-> jobs, stopped |-> stopped, terminated |-> terminated,
         calls |-> IF validate_source_readiness(detail) /\ ~azure
                   THEN <<"mgn.describe_source_servers">> ELSE << >>,
         st |-> IF ~IsErr(e) /\ storeOk THEN updated ELSE store,
         wrote |-> ~IsErr(e) /\ storeOk,
         pubs |->
            IF IsErr(e)
            THEN publish_failure_event(GetOr(detail, "migrationId", "unknown"),
                     correlation_id, e.error_code, e.message, EmptyDict, Now, busOk)
            ELSE AfterWrite(storeOk,
                     publish_status_event(migration_id, correlation_id,
                     "prepare_source", "SUCCESS", preparation_result, Now, busOk)),
         outcome |-> IF IsErr(e) THEN "typed"
                     ELSE IF storeOk /\ busOk THEN "success" ELSE "untyped",
         resp |->
            IF IsErr(e) THEN [statusCode |-> 500, body |-> e]
            ELSE IF storeOk /\ busOk
            THEN [statusCode |-> 200,
                  body |-> [migrationId |-> migration_id, status |-> "SOURCE_PREPARED",
                            details |-> preparation_result]]
            ELSE [statusCode |-> 500,
                  body |-> [error |-> "Source preparation failed"]]]

PrepareFaults == {"none", "mgn", "store"}

PrepareEvents(ids) ==
    Canonical(
        {DirectEvent(p, FALSE) :
            p \in UNION {{With(BasePayload(m), "sourceVmId", VmOf(m)),
                          BasePayload(m),
                          With(With(BasePayload(m), "sourceVmId", VmOf(m)),
                               "source", "vmware")} : m \in ids}})

PrepareSourceDirect(E) ==
    \E event \in PrepareEvents(E.ids),
       fault \in E.faults \cap PrepareFaults, busOk \in E.busOk :
        Invoke(E, "prepare_source", "direct", event,
               prepare_source(event, fault, busOk))

----------------------------------------------------------------------------
(* trigger_migration.py *)

JobOf(vm) == "job-" \o vm

\* A launch that is a test exactly when the list does not name freeze
NoFreeze(steps) == ~\E i \in 1..Len(steps) : steps[i] = "freeze"

\* is_test = "freeze" not in steps or len(steps) < 3
is_test(steps) ==
    \/ ~\E i \in 1..Len(steps) : steps[i] = "freeze"
    \/ Len(steps) < 3

trigger_mgn_test_launch(payload) ==
    [jobId |-> JobOf(GetOr(payload, "sourceVmId", "")),
     status |-> "TEST_LAUNCH_INITIATED", timestamp |-> Now]

trigger_mgn_cutover(payload) ==
    [jobId |-> JobOf(GetOr(payload, "sourceVmId", "")),
     status |-> "CUTOVER_INITIATED", timestamp |-> Now]

update_cmf_wave_status(payload, status) ==
    [wave |-> Get(payload, "wave"), appName |-> Get(payload, "appName"),
     status |-> status, updatedAt |-> Now]

trigger_migration(event, fault, busOk) ==
    LET detail == GetOr(event, "detail", EmptyDict)
        correlation_id == extract_correlation_id(event, nGen)
        migration_id == Get(detail, "migrationId")
        steps == GetOr(detail, "steps", << >>)
        e == IF Down(fault, "mgn")
             THEN to_dict("MIGRATION_EXECUTION_ERROR",
                          IF is_test(steps) THEN "Failed to trigger MGN test launch"
                          ELSE "Failed to trigger MGN cutover", [service |-> "mgn"])
             ELSE NoErr
        migration_result == IF is_test(steps) THEN trigger_mgn_test_launch(detail)
                            ELSE trigger_mgn_cutover(detail)
        cmf_result == update_cmf_wave_status(detail, "IN_PROGRESS")
        results == [mgn |-> migration_result, cmf |-> cmf_result]
        storeOk == fault # "store"
        updated == update_migration_status(store, migration_id,
                       "MIGRATION_IN_PROGRESS", results, Now)
    IN  [jobs |-> IF IsErr(e) THEN jobs
                  ELSE jobs \cup {[mid |-> migration_id,
                                   vm |-> GetOr(detail, "sourceVmId", ""),
                                   kind |-> IF is_test(steps) THEN "test" ELSE "cutover"]},
         stopped |-> stopped, terminated |-> terminated,
         calls |-> IF is_test(steps) THEN <<"mgn.start_test_launch">>
                   ELSE <<"mgn.start_cutover">>,
         st |-> IF ~IsErr(e) /\ storeOk THEN updated ELSE store,
         wrote |-> ~IsErr(e) /\ storeOk,
         pubs |->
            IF IsErr(e)
            THEN publish_failure_event(GetOr(detail, "migrationId", "unknown"),
                     correlation_id, e.error_code, e.message, EmptyDict, Now, busOk)
            ELSE AfterWrite(storeOk,
                     publish_status_event(migration_id, correlation_id,
                     "trigger_migration", "IN_PROGRESS", results, Now, busOk)),
         outcome |-> IF IsErr(e) THEN "typed"
                     ELSE IF storeOk /\ busOk THEN "success" ELSE "untyped",
         resp |->
            IF IsErr(e) THEN [statusCode |-> 500, body |-> e]
            ELSE IF storeOk /\ busOk
            THEN [statusCode |-> 200,
                  body |-> [migrationId |-> migration_id,
                            status |-> "MIGRATION_IN_PROGRESS",
                            mgn |-> migration_result, cmf |-> cmf_result]]
            ELSE [statusCode |-> 500,
                  body |-> [error |-> "Failed to trigger migration"]]]

TriggerFaults == {"none", "mgn", "store"}

CutoverSteps == <<"freeze", "replicate", "validate", "switch">>

TriggerEvents(ids) ==
    Canonical(
        {DirectEvent(p, FALSE) :
            p \in UNION {{With(BasePayload(m), "sourceVmId", VmOf(m)),
                          With(With(BasePayload(m), "sourceVmId", VmOf(m)),
                               "steps", CutoverSteps)} : m \in ids}})

\* Events whose steps are any list of up to MaxSteps names, or absent
TriggerStepEvents(ids) ==
    Canonical(
        {DirectEvent(With(BasePayload(m), "sourceVmId", VmOf(m)), FALSE) : m \in ids}
        \cup
        {DirectEvent(With(With(BasePayload(m), "sourceVmId", VmOf(m)), "steps", steps),
                     FALSE) :
            m \in ids,
            steps \in UNION {[1..n -> {"freeze", "switch"}] :
                                n \in 0..MaxSteps}})

TriggerMigrationSteps(E) ==
    \E event \in TriggerStepEvents(E.ids),
       fault \in E.faults \cap TriggerFaults, busOk \in E.busOk :
        Invoke(E, "trigger_migration", "direct", event,
               trigger_migration(event, fault, busOk))

TriggerMigrationDirect(E) ==
    \E event \in TriggerEvents(E.ids),
       fault \in E.faults \cap TriggerFaults, busOk \in E.busOk :
        Invoke(E, "trigger_migration", "direct", event,
               trigger_migration(event, fault, busOk))

----------------------------------------------------------------------------
(* verify_migration.py *)

LagThreshold == 300

\* validate_replication_lag: False when the lag exceeds the threshold
validate_replication_lag(replication_lag, threshold) == ~(replication_lag > threshold)

check_mgn_replication_status(lag) ==
    [replicationStatus |-> "CONTINUOUS", replicationLag |-> lag,
     lastSeenByService |-> Now]

check_application_health(payload) ==
    [appName |-> Get(payload, "appName"), healthStatus |-> "HEALTHY",
     checkedAt |-> Now,
     checks |-> [connectivity |-> "True", diskSpace |-> "True",
                 memory |-> "True", cpu |-> "True"]]

\* lag: the replicationLagSec that MGN reports for the source server
verify_migration(event, lag, fault, busOk) ==
    LET detail == GetOr(event, "detail", EmptyDict)
        correlation_id == extract_correlation_id(event, nGen)
        migration_id == Get(detail, "migrationId")
        replication_status == check_mgn_replication_status(lag)
        e == IF Down(fault, "mgn")
             THEN to_dict("VERIFICATION_ERROR",
                          "Failed to check MGN replication status", [service |-> "mgn"])
             ELSE IF ~validate_replication_lag(lag, LagThreshold)
             THEN to_dict("VERIFICATION_ERROR",
                          "Replication lag exceeds acceptable threshold", [lag |-> lag])
             ELSE NoErr
        health_status == check_application_health(detail)
        results == [replication |-> replication_status, health |-> health_status]
        storeOk == fault # "store"
        updated == update_migration_status(store, migration_id, "VERIFIED", results, Now)
    IN  [jobs |-> jobs, stopped |-> stopped, terminated |-> terminated,
         calls |-> <<"mgn.describe_source_servers">>,
         st |-> IF ~IsErr(e) /\ storeOk THEN updated ELSE store,
         wrote |-> ~IsErr(e) /\ storeOk,
         pubs |->
            IF IsErr(e)
            THEN publish_failure_event(GetOr(detail, "migrationId", "unknown"),
                     correlation_id, e.error_code, e.message, EmptyDict, Now, busOk)
            ELSE AfterWrite(storeOk,
                     publish_status_event(migration_id, correlation_id,
                     "verify_migration", "SUCCESS", results, Now, busOk)),
         outcome |-> IF IsErr(e) THEN "typed"
                     ELSE IF storeOk /\ busOk THEN "success" ELSE "untyped",
         resp |->
            IF IsErr(e) THEN [statusCode |-> 500, body |-> e]
            ELSE IF storeOk /\ busOk
            THEN [statusCode |-> 200,
                  body |-> [migrationId |-> migration_id, status |-> "VERIFIED",
                            replication |-> replication_status,
                            health |-> health_status]]
            ELSE [statusCode |-> 500,
                  body |-> [error |-> "Migration verification failed"]]]

VerifyFaults == {"none", "mgn", "store"}

Lags == {LagThreshold - 1, LagThreshold, LagThreshold + 1}

VerifyEvents(ids) ==
    Canonical(
        {DirectEvent(With(BasePayload(m), "sourceVmId", VmOf(m)), FALSE) : m \in ids})

VerifyMigrationDirect(E) ==
    \E event \in VerifyEvents(E.ids), lag \in Lags,
       fault \in E.faults \cap VerifyFaults, busOk \in E.busOk :
        Invoke(E, "verify_migration", "direct", event,
               verify_migration(event, lag, fault, busOk))

----------------------------------------------------------------------------
(* finalize_cutover.py *)

CutoverDescription(step) ==
    CASE step = "freeze"    -> "Source VM frozen"
      [] step = "replicate" -> "Final replication completed"
      [] step = "validate"  -> "Target instance validated"
      [] step = "switch"    -> "Traffic switched to target"

\* A cutover that performs each named step once, in the order of the runbook
InRunbookOrder(steps) ==
    LET named == SelectSeq(CutoverSteps,
                           LAMBDA n : \E i \in 1..Len(steps) : steps[i] = n)
    IN  [i \in 1..Len(named) |->
            [step |-> named[i], status |-> "COMPLETED",
             description |-> CutoverDescription(named[i])]]

RECURSIVE StepsPerformed(_)
StepsPerformed(steps) ==
    IF steps = << >> THEN << >>
    ELSE IF Head(steps) \in {"freeze", "replicate", "validate", "switch"}
    THEN <<[step |-> Head(steps), status |-> "COMPLETED",
            description |-> CutoverDescription(Head(steps))]>>
         \o StepsPerformed(Tail(steps))
    ELSE StepsPerformed(Tail(steps))

perform_cutover_steps(payload) ==
    [stepsPerformed |-> StepsPerformed(GetOr(payload, "steps", << >>)),
     startedAt |-> Now, completedAt |-> Now]

update_dns(payload) ==
    [appName |-> Get(payload, "appName"), status |-> "DNS_UPDATED", updatedAt |-> Now]

decommission_source(payload) ==
    [sourceVmId |-> Get(payload, "sourceVmId"), status |-> "DECOMMISSIONED",
     decommissionedAt |-> Now]

update_cmdb(payload) ==
    [appName |-> Get(payload, "appName"), environment |-> Get(payload, "environment"),
     status |-> "MIGRATED_TO_AWS", updatedAt |-> Now]

finalize_cutover(event, fault, busOk) ==
    LET detail == GetOr(event, "detail", EmptyDict)
        correlation_id == extract_correlation_id(event, nGen)
        migration_id == Get(detail, "migrationId")
        e == IF ~Truthy(Get(detail, "sourceVmId"))
             THEN to_dict("CUTOVER_ERROR",
                          "Source VM ID not provided for decommission", EmptyDict)
             ELSE NoErr
        results == [cutover      |-> perform_cutover_steps(detail),
                    dns          |-> update_dns(detail),
                    decommission |-> decommission_source(detail),
                    cmdb         |-> update_cmdb(detail)]
        storeOk == fault # "store"
        updated == update_migration_status(store, migration_id, "COMPLETED", results, Now)
    IN  [jobs |-> jobs, stopped |-> stopped, terminated |-> terminated,
         calls |-> << >>,
         st |-> IF ~IsErr(e) /\ storeOk THEN updated ELSE store,
         wrote |-> ~IsErr(e) /\ storeOk,
         pubs |->
            IF IsErr(e)
            THEN publish_failure_event(GetOr(detail, "migrationId", "unknown"),
                     correlation_id, e.error_code, e.message, EmptyDict, Now, busOk)
            ELSE AfterWrite(storeOk,
                     publish_success_event(migration_id, correlation_id, results, Now, busOk)),
         outcome |-> IF IsErr(e) THEN "typed"
                     ELSE IF storeOk /\ busOk THEN "success" ELSE "untyped",
         resp |->
            IF IsErr(e) THEN [statusCode |-> 500, body |-> e]
            ELSE IF storeOk /\ busOk
            THEN [statusCode |-> 200,
                  body |-> Update([migrationId |-> migration_id, status |-> "COMPLETED"],
                                  results)]
            ELSE [statusCode |-> 500,
                  body |-> [error |-> "Cutover finalization failed"]]]

FinalizeFaults == {"none", "store"}

FinalizeEvents(ids) ==
    Canonical(
        {DirectEvent(p, FALSE) :
            p \in UNION {{With(With(BasePayload(m), "sourceVmId", VmOf(m)),
                               "steps", CutoverSteps),
                          With(BasePayload(m), "steps", CutoverSteps)} : m \in ids}})

FinalizeCutoverDirect(E) ==
    \E event \in FinalizeEvents(E.ids),
       fault \in E.faults \cap FinalizeFaults, busOk \in E.busOk :
        Invoke(E, "finalize_cutover", "direct", event,
               finalize_cutover(event, fault, busOk))

----------------------------------------------------------------------------
(* rollback_handler.py *)

\* stop_mgn_replication inside its try/except: the result, or the FAILED entry
StopReplication(source_vm_id, fault) ==
    IF Down(fault, "mgn")
    THEN [status |-> "FAILED", error |-> "Failed to stop MGN replication"]
    ELSE [status |-> "REPLICATION_STOPPED", sourceVmId |-> source_vm_id]

\* terminate_target_instance inside its try/except
TerminateTarget(payload, fault) ==
    IF ~Truthy(Get(payload, "targetInstanceId"))
    THEN [status |-> "SKIPPED", reason |-> "No target instance ID"]
    ELSE IF Down(fault, "ec2")
    THEN [status |-> "FAILED", error |-> "Failed to terminate target instance"]
    ELSE [status |-> "INSTANCE_TERMINATED",
          instanceId |-> Get(payload, "targetInstanceId")]

\* restore_source_state inside its try/except
RestoreSource(payload) ==
    IF ~Truthy(Get(payload, "sourceVmId"))
    THEN [status |-> "FAILED",
          error |-> "Source VM ID not provided for state restoration"]
    ELSE [sourceVmId |-> Get(payload, "sourceVmId"), status |-> "STATE_RESTORED",
          restoredAt |-> Now]

notify_stakeholders(migration_id, error_details) ==
    [migrationId |-> migration_id, notificationType |-> "ROLLBACK_NOTIFICATION",
     status |-> "SENT", sentAt |-> Now, errorDetails |-> error_details]

\* Whether a recorded compensation result is a failure
Failed(result) ==
    \/ Has(result, "status") /\ result["status"] = "FAILED"
    \/ Has(result, "success") /\ ~result["success"]

\* A variant in which a failed compensation ends the rollback
Aborting(acc, key, result) ==
    IF \E k \in DOMAIN acc.results : Failed(acc.results[k]) THEN acc
    ELSE [results  |-> IF result = EmptyDict THEN acc.results
                       ELSE Update(acc.results, key :> result),
          attempts |-> Append(acc.attempts, key)]

\* A compensation in its own try/except: it is attempted whatever the earlier
\* ones did, and its result or its FAILED entry is recorded under key (a
\* compensation that had nothing to call records nothing)
Guarded(acc, key, result) ==
    [results  |-> IF result = EmptyDict THEN acc.results
                  ELSE Update(acc.results, key :> result),
     attempts |-> Append(acc.attempts, key)]

\* The four compensations of the handler, in the order of the code
Compensations(detail, fault) ==
    LET source_vm_id == Get(detail, "sourceVmId")
        a0 == [results |-> EmptyDict, attempts |-> << >>]
        a1 == Guarded(a0, "mgnReplication",
                      IF Truthy(source_vm_id)
                      THEN StopReplication(source_vm_id, fault) ELSE EmptyDict)
        a2 == Guarded(a1, "targetInstance", TerminateTarget(detail, fault))
        a3 == Guarded(a2, "sourceState", RestoreSource(detail))
    IN  Guarded(a3, "notification",
                notify_stakeholders(Get(detail, "migrationId"),
                    [errorCode    |-> Get(detail, "errorCode"),
                     errorMessage |-> Get(detail, "errorMessage")]))

rollback_results(detail, fault) == Compensations(detail, fault).results

\* The collaborator calls the handler issues, in order
RollbackCalls(detail) ==
    (IF Truthy(Get(detail, "sourceVmId")) THEN <<"mgn.discontinue_from_launch">>
     ELSE << >>)
    \o (IF Truthy(Get(detail, "targetInstanceId")) THEN <<"ec2.terminate_instances">>
        ELSE << >>)

rollback_handler(event, fault, busOk) ==
    LET detail == GetOr(event, "detail", EmptyDict)
        correlation_id == extract_correlation_id(event, nGen)
        migration_id == Get(detail, "migrationId")
        results == rollback_results(detail, fault)
        storeOk == fault # "store"
        updated == update_migration_status(store, migration_id, "ROLLED_BACK",
                                           results, Now)
    IN  [jobs |-> jobs,
         stopped |-> IF Truthy(Get(detail, "sourceVmId"))
                     THEN stopped \cup {detail["sourceVmId"]} ELSE stopped,
         terminated |-> IF Truthy(Get(detail, "targetInstanceId"))
                        THEN terminated \cup {detail["targetInstanceId"]}
                        ELSE terminated,
         calls |-> RollbackCalls(detail),
         attempts |-> Compensations(detail, fault).attempts,
         st |-> IF storeOk THEN updated ELSE store,
         wrote |-> storeOk,
         pubs |->
            AfterWrite(storeOk,
                publish_event("MigrationRolledBack",
                    [migrationId     |-> migration_id,
                     correlationId   |-> correlation_id,
                     status          |-> "ROLLED_BACK",
                     rollbackDetails |-> results,
                     timestamp       |-> Now], "migration.orchestration", busOk)),
         outcome |-> IF storeOk /\ busOk THEN "success" ELSE "untyped",
         resp |->
            IF storeOk /\ busOk
            THEN [statusCode |-> 200,
                  body |-> [migrationId |-> migration_id, status |-> "ROLLED_BACK",
                            rollbackDetails |-> results]]
            ELSE [statusCode |-> 500, body |-> [error |-> "Rollback process failed"]]]

RollbackFaults == {"none", "mgn", "ec2", "mgn+ec2", "store"}

RollbackEvents(ids) ==
    Canonical(
        {DirectEvent(p, FALSE) :
            p \in UNION {{BasePayload(m),
                          With(BasePayload(m), "sourceVmId", VmOf(m)),
                          With(With(BasePayload(m), "sourceVmId", VmOf(m)),
                               "targetInstanceId", InstanceOf(m))} : m \in ids}})

RollbackDirect(E) ==
    \E event \in RollbackEvents(E.ids),
       fault \in E.faults \cap RollbackFaults, busOk \in E.busOk :
        Invoke(E, "rollback_handler", "direct", event,
               rollback_handler(event, fault, busOk))

\* The failure event of a phase reaches the compensator
RollbackFromBus(E) ==
    \E event \in Delivered("MigrationFailed"),
       fault \in E.faults \cap RollbackFaults, busOk \in E.busOk :
        Invoke(E, "rollback_handler", "bus", event,
               rollback_handler(event, fault, busOk))

----------------------------------------------------------------------------
(* ingress_handler.py *)

\* json.loads(record["body"]): a body that is no JSON text raises
Unparsable == [unparsable |-> "{"]

Parses(body) == ~Has(body, "unparsable")

\* validate(instance, MIGRATION_SCHEMA): schemas/migration_payload.json
\* requires the six fields of the payload
validate_message(message) ==
    LET f == FirstMissing(message, 1)
    IN  IF f = NoneVal THEN NoErr
        ELSE to_dict("VALIDATION_ERROR", "Invalid migration payload",
                     [path |-> f, message |-> "is a required property"])

EventId == "event-id"

\* One SQS record: what it adds to the results, what it publishes, and whether
\* it consumed a generated correlation ID
IngressRecord(record, n, busOk) ==
    LET body == record.body
        correlation_id == extract_correlation_id(body, n)
        e == validate_message(body)
        injected == inject_correlation_id(body, correlation_id)
    IN  IF ~Parses(body)
        THEN [gen |-> 0, pubs |-> {}, ok |-> FALSE,
              entry |-> [messageId |-> record.messageId, error |-> "JSONDecodeError"]]
        ELSE IF IsErr(e)
        THEN [gen |-> IF Generates(body) THEN 1 ELSE 0, pubs |-> {}, ok |-> FALSE,
              entry |-> [messageId |-> record.messageId, error |-> e.error_code]]
        ELSE IF ~busOk
        THEN [gen |-> IF Generates(body) THEN 1 ELSE 0, pubs |-> {}, ok |-> FALSE,
              entry |-> [messageId |-> record.messageId,
                         error |-> "Failed to publish event"]]
        ELSE [gen |-> IF Generates(body) THEN 1 ELSE 0,
              pubs |-> publish_event("MigrationRequested", injected,
                                     "migration.ingress", busOk),
              ok |-> TRUE,
              entry |-> [messageId |-> record.messageId, eventId |-> EventId,
                         migrationId |-> Get(body, "migrationId")]]

\* One step of the loop over event["Records"]: acc is [n, pubs, successful,
\* failed, records], where records lists the records handled so far and what
\* was published for each
Processed(record, busOk, acc) ==
    LET r == IngressRecord(record, acc.n, busOk)
    IN  [n          |-> acc.n + r.gen,
         pubs       |-> acc.pubs \cup r.pubs,
         successful |-> IF r.ok THEN Append(acc.successful, r.entry)
                        ELSE acc.successful,
         failed     |-> IF r.ok THEN acc.failed
                        ELSE Append(acc.failed, r.entry),
         records    |-> Append(acc.records,
                               [messageId |-> record.messageId,
                                body      |-> record.body,
                                pubs      |-> r.pubs])]

\* A loop that gives up the batch at its first failing record
RECURSIVE AbandoningLoop(_, _, _)
AbandoningLoop(records, busOks, acc) ==
    IF records = << >> THEN acc
    ELSE LET next == Processed(Head(records), Head(busOks), acc)
         IN  IF Len(next.failed) > Len(acc.failed) THEN next
             ELSE AbandoningLoop(Tail(records), Tail(busOks), next)

\* for record in event.get("Records", []): try ... except ... except
RECURSIVE IngressLoop(_, _, _)
IngressLoop(records, busOks, acc) ==
    IF records = << >> THEN acc
    ELSE IngressLoop(Tail(records), Tail(busOks),
                     Processed(Head(records), Head(busOks), acc))

ingress_handler(records, busOks) ==
    LET out == IngressLoop(records, busOks,
                   [n |-> nGen, pubs |-> {}, successful |-> << >>,
                    failed |-> << >>, records |-> << >>])
    IN  [n |-> out.n, pubs |-> out.pubs, records |-> out.records,
         resp |-> [statusCode |-> 200,
                   body |-> [successful |-> out.successful, failed |-> out.failed]]]

MessageBodies(ids) ==
    UNION {{BasePayload(m),
            Without(BasePayload(m), "source"),
            With(BasePayload(m), "correlation_id", CallerCid(m))} : m \in ids}
    \cup {Unparsable}

\* record["messageId"] of the i-th record of a batch
MessageIdOf(i) == "msg-" \o ToString(i)

\* The batches of one to size messages
Batches(ids, size) ==
    Canonical(UNION {{[i \in 1..n |-> [messageId |-> MessageIdOf(i), body |-> bs[i]]] :
                         bs \in [1..n -> MessageBodies(ids)]} : n \in 1..size})

\* The events that the loop published while it handled the message
PublishedFor(handled, messageId) ==
    UNION {handled[i].pubs : i \in {j \in 1..Len(handled) :
                                       handled[j].messageId = messageId}}

\* The invocation of ingress for a batch, r being what the handler computed
Answered(E, records, r) ==
    /\ nInv < E.cap
    /\ nInv' = nInv + 1
    /\ nGen' = r.n
    /\ bus' = bus \cup r.pubs
    /\ inv' = [handler       |-> "ingress_handler",
               via           |-> "direct",
               mid           |-> NoneVal,
               cause         |-> NoneVal,
               correlationId |-> NoneVal,
               outcome       |-> "success",
               wrote         |-> FALSE,
               published     |-> r.pubs,
               response      |-> r.resp,
               calls         |-> << >>,
               attempts      |-> << >>,
               records       |->
                   [i \in 1..Len(records) |->
                       [messageId |-> records[i].messageId,
                        body      |-> records[i].body,
                        pubs      |-> PublishedFor(r.records,
                                                   records[i].messageId)]]]
    /\ UNCHANGED <<store, jobs, stopped, terminated>>

Ingress(E) ==
    \E records \in Batches(E.ids, E.batch) :
      \E busOks \in [1..Len(records) -> E.busOk] :
        Answered(E, records, ingress_handler(records, busOks))

----------------------------------------------------------------------------
(* rollback_handler_new.py and verify_migration_new.py: the handlers that the
   Step Functions workflow invokes.  They import get_correlation_id and
   propagate_context from common.correlation and update_migration_state from
   common.dynamodb_helper; common/ defines none of the three, so these
   helpers follow the specification of the State Store and of Correlation. *)

\* The correlation ID bound to the invocation context
get_correlation_id == "mig-ctx"

\* updateStatus: status and updatedAt are rewritten, details are merged into
\* executionDetails
update_migration_state(st, mid, status, details, now) ==
    LET old == st[mid]
    IN  [st EXCEPT ![mid] =
            Update(old,
                   [migrationId      |-> mid,
                    status           |-> status,
                    updatedAt        |-> now,
                    executionDetails |->
                        Update(GetOr(old, "executionDetails", EmptyDict), details)])]

\* Which record writes of an invocation raise: all of them during an outage
\* of the store, only the write of the final status when the store fails
\* once ("store-final")
WriteOk(fault, write) ==
    /\ fault # "store"
    /\ ~(fault = "store-final" /\ write = "final")

StoreErrorMessage == "ClientError"

StepResult(success, message) == [success |-> success, message |-> message]

cancel_mgn_job(payload, fault) ==
    IF ~Has(payload, "migrationId") THEN StepResult(FALSE, "'migrationId'")
    ELSE IF ~Truthy(Get(payload, "jobId")) THEN StepResult(TRUE, "No job to cancel")
    ELSE IF Down(fault, "mgn") THEN StepResult(TRUE, "Job cancel attempted")
    ELSE StepResult(TRUE, "Job cancellation processed")

revert_target_instance(payload, fault) ==
    IF ~Has(payload, "migrationId") THEN StepResult(FALSE, "'migrationId'")
    ELSE IF ~Truthy(Get(payload, "targetInstanceId"))
    THEN StepResult(TRUE, "No target instance to revert")
    ELSE IF Down(fault, "ec2") THEN StepResult(FALSE, "ec2 error")
    ELSE StepResult(TRUE, "Instance terminated")

restore_source_vm(payload) ==
    IF ~Has(payload, "migrationId") THEN StepResult(FALSE, "'migrationId'")
    ELSE IF ~Has(payload, "appName") THEN StepResult(FALSE, "'appName'")
    ELSE IF ~Truthy(Get(payload, "snapshotId"))
    THEN StepResult(TRUE, "No snapshot to restore from")
    ELSE IF ~Has(payload, "source") THEN StepResult(FALSE, "'source'")
    ELSE StepResult(TRUE, "VM restored from snapshot")

\* rollback_steps.append({'step': ..., 'success': ..., 'message': ...})
StepEntry(step, r) == [step |-> step, success |-> r.success, message |-> r.message]

RecordedSteps == <<"cancel_mgn_job", "revert_target_instance", "restore_source_vm">>

\* The list rollback_steps, in the order the entries were appended
RollbackSteps(results) ==
    LET ks == SelectSeq(RecordedSteps, LAMBDA k : Has(results, k))
    IN  [i \in 1..Len(ks) |-> results[ks[i]]]

\* The rollback steps of the handler, in the order of the code; the results
\* of restore_previous_state and notify_stakeholders are dropped
CompensationsNew(payload, fault) ==
    LET a0 == [results |-> EmptyDict, attempts |-> << >>]
        a1 == Guarded(a0, "cancel_mgn_job",
                      StepEntry("cancel_mgn_job", cancel_mgn_job(payload, fault)))
        a2 == Guarded(a1, "revert_target_instance",
                      StepEntry("revert_target_instance",
                                revert_target_instance(payload, fault)))
        a3 == Guarded(a2, "restore_source_vm",
                      StepEntry("restore_source_vm", restore_source_vm(payload)))
        a4 == Guarded(a3, "restore_previous_state", EmptyDict)
    IN  Guarded(a4, "notify_stakeholders", EmptyDict)

RollbackNewCalls(payload) ==
    (IF Has(payload, "migrationId") /\ Truthy(Get(payload, "jobId"))
     THEN <<"mgn.describe_jobs">> ELSE << >>)
    \o (IF Has(payload, "migrationId") /\ Truthy(Get(payload, "targetInstanceId"))
        THEN <<"ec2.terminate_instances">> ELSE << >>)
    \o <<"dynamodb.get_item">>
    \o (IF Has(payload, "migrationId") /\ Has(payload, "appName")
        THEN <<"sns.publish">> ELSE << >>)

\* The response of an invocation whose handler raised
Raised(message) == [errorMessage |-> message]

rollback_handler_new(event, fault) ==
    LET correlation_id == get_correlation_id
        migration_id == IF Truthy(Get(event, "migrationId")) THEN event["migrationId"]
                        ELSE Get(GetOr(event, "detail", EmptyDict), "migrationId")
        error == GetOr(event, "error", "Unknown error")
        payload == GetOr(event, "detail", event)
        began == WriteOk(fault, "first")
        ended == began /\ WriteOk(fault, "final")
        comp == CompensationsNew(payload, fault)
        rollback_steps == RollbackSteps(comp.results)
        st1 == update_migration_state(store, migration_id, "ROLLBACK_IN_PROGRESS",
                   [step |-> "rollback", error |-> error,
                    correlationId |-> correlation_id, timestamp |-> Now], Now)
        st2 == update_migration_state(st1, migration_id, "ROLLED_BACK",
                   [step |-> "rollback", rollbackSteps |-> rollback_steps,
                    error |-> error, correlationId |-> correlation_id,
                    timestamp |-> Now], Now)
        stF == update_migration_state(IF began THEN st1 ELSE store, migration_id,
                   "ROLLBACK_FAILED",
                   [error |-> StoreErrorMessage, originalError |-> error,
                    correlationId |-> correlation_id, timestamp |-> Now], Now)
        handled == WriteOk(fault, "except")
    IN  [mid |-> migration_id,
         correlationId |-> correlation_id,
         jobs |-> jobs,
         stopped |-> stopped,
         terminated |-> IF began /\ Has(payload, "migrationId")
                           /\ Truthy(Get(payload, "targetInstanceId"))
                        THEN terminated \cup {payload["targetInstanceId"]}
                        ELSE terminated,
         calls |-> IF began THEN RollbackNewCalls(payload) ELSE << >>,
         attempts |-> IF began THEN comp.attempts ELSE << >>,
         st |-> IF ended THEN st2 ELSE IF handled THEN stF ELSE store,
         wrote |-> ended \/ handled,
         pubs |-> {},
         outcome |-> IF ended THEN "success" ELSE IF handled THEN "untyped" ELSE "raised",
         resp |->
            IF ended
            THEN [statusCode |-> 200, success |-> TRUE, migrationId |-> migration_id,
                  correlationId |-> correlation_id, status |-> "ROLLED_BACK",
                  message |-> "Rollback completed successfully",
                  rollbackSteps |-> rollback_steps]
            ELSE IF handled
            THEN [statusCode |-> 500, success |-> FALSE, error |-> StoreErrorMessage,
                  migrationId |-> migration_id, correlationId |-> correlation_id,
                  message |-> "Rollback failed - manual intervention may be required"]
            ELSE Raised(StoreErrorMessage)]

\* The effect of one invocation by the workflow: r is what the handler
\* computed
InvokeNew(E, handler, r) ==
    /\ nInv < E.cap
    /\ nInv' = nInv + 1
    /\ store' = r.st
    /\ bus' = bus \cup r.pubs
    /\ jobs' = r.jobs
    /\ stopped' = r.stopped
    /\ terminated' = r.terminated
    /\ inv' = [handler       |-> handler,
               via           |-> "workflow",
               mid           |-> r.mid,
               cause         |-> NoneVal,
               correlationId |-> r.correlationId,
               outcome       |-> r.outcome,
               wrote         |-> r.wrote,
               published     |-> r.pubs,
               response      |-> r.resp,
               calls         |-> r.calls,
               attempts      |-> r.attempts,
               records       |-> << >>]
    /\ UNCHANGED nGen

NewFaults == {"none", "mgn", "ec2", "store", "store-final"}

SnapshotOf(m) == "snap-" \o m

\* The workflow hands the payload and the error to the handler
RollbackNewEvents(ids) ==
    Canonical(
        UNION {{With(BasePayload(m), "error", "phase failed"),
                With(With(BasePayload(m), "error", "phase failed"),
                     "jobId", JobOf(VmOf(m))),
                With(With(With(With(BasePayload(m), "error", "phase failed"),
                               "jobId", JobOf(VmOf(m))),
                          "targetInstanceId", InstanceOf(m)),
                     "snapshotId", SnapshotOf(m)),
                Without(With(With(BasePayload(m), "jobId", JobOf(VmOf(m))),
                             "targetInstanceId", InstanceOf(m)), "appName")} : m \in ids})

RollbackNew(E) ==
    \E event \in RollbackNewEvents(E.ids), fault \in E.faults \cap NewFaults :
        InvokeNew(E, "rollback_handler_new", rollback_handler_new(event, fault))

\* check_mgn_replication_status(job_id): report is the status of the job that
\* describe_jobs returns, or NOT_FOUND
check_job_status(report, fault) ==
    IF Down(fault, "mgn")
    THEN [success |-> FALSE, message |-> "mgn error", job_status |-> "ERROR"]
    ELSE IF report = "NOT_FOUND"
    THEN [success |-> FALSE, message |-> "Job not found", job_status |-> "UNKNOWN"]
    ELSE [success |-> TRUE, message |-> "Status retrieved", job_status |-> report]

\* health: what describe_instance_status returns for the target instance
verify_application_health(payload, health, fault) ==
    IF ~Has(payload, "appName") THEN StepResult(FALSE, "'appName'")
    ELSE IF ~Has(payload, "migrationId") THEN StepResult(FALSE, "'migrationId'")
    ELSE IF Truthy(Get(payload, "callbackUrl"))
    THEN StepResult(TRUE, "Custom health check passed")
    ELSE IF ~Truthy(Get(payload, "targetInstanceId"))
    THEN StepResult(TRUE, "Health check skipped (no target instance)")
    ELSE IF Down(fault, "ec2")
    THEN StepResult(TRUE, "Health check skipped (instance not available)")
    ELSE IF health = "not-ready"
    THEN StepResult(FALSE, "Instance status checks not ready")
    ELSE IF health # "ok" THEN StepResult(FALSE, "Health check failed")
    ELSE StepResult(TRUE, "Health check passed")

\* The statuses of a job that has left the pending state
Launched == {"STARTED", "COMPLETED", "SUCCEEDED"}

\* The job statuses that end the wait of the handler
JobDone == {"COMPLETED", "SUCCEEDED"}

verify_migration_new(event, report, health, lag, fault) ==
    LET correlation_id == get_correlation_id
        migration_id == IF Truthy(Get(event, "migrationId")) THEN event["migrationId"]
                        ELSE Get(GetOr(event, "detail", EmptyDict), "migrationId")
        job_id == Get(event, "jobId")
        payload == GetOr(event, "detail", event)
        began == Truthy(job_id) /\ WriteOk(fault, "first")
        job == check_job_status(report, fault)
        waiting == began /\ job.success /\ job.job_status \notin JobDone
        finished == began /\ job.success /\ job.job_status \in JobDone
        h == verify_application_health(payload, health, fault)
        health_status == IF h.success THEN "healthy" ELSE "unhealthy"
        ready_for_cutover == h.success /\ job.job_status = "COMPLETED"
        state_name == IF ready_for_cutover THEN "VERIFIED_AND_READY"
                      ELSE "VERIFICATION_FAILED"
        ended == finished /\ WriteOk(fault, "final")
        raises == ~began \/ (finished /\ ~ended)
        handled == raises /\ WriteOk(fault, "except")
        message == IF ~Truthy(job_id) THEN "Job ID is required for verification"
                   ELSE StoreErrorMessage
        st1 == update_migration_state(store, migration_id, "VERIFYING_MIGRATION",
                   [step |-> "verify_migration", jobId |-> job_id,
                    correlationId |-> correlation_id, timestamp |-> Now], Now)
        st2 == update_migration_state(st1, migration_id, state_name,
                   [step |-> "verify_migration", jobStatus |-> job.job_status,
                    replicationLag |-> lag, healthStatus |-> health_status,
                    readyForCutover |-> ready_for_cutover,
                    correlationId |-> correlation_id, timestamp |-> Now], Now)
        stF == update_migration_state(IF began THEN st1 ELSE store, migration_id,
                   "VERIFICATION_ERROR",
                   [error |-> message, correlationId |-> correlation_id,
                    timestamp |-> Now], Now)
    IN  [mid |-> migration_id,
         correlationId |-> correlation_id,
         jobs |-> jobs, stopped |-> stopped, terminated |-> terminated,
         calls |-> IF began THEN <<"mgn.describe_jobs">> ELSE << >>,
         attempts |-> << >>,
         st |-> IF ended THEN st2
                ELSE IF raises THEN (IF handled THEN stF ELSE store)
                ELSE st1,
         wrote |-> IF raises THEN handled ELSE TRUE,
         pubs |-> {},
         outcome |-> IF raises THEN (IF handled THEN "untyped" ELSE "raised")
                     ELSE IF waiting THEN "waiting"
                     ELSE IF ended THEN "success" ELSE "unavailable",
         resp |->
            IF raises
            THEN (IF handled
                  THEN [statusCode |-> 500, success |-> FALSE, error |-> message,
                        migrationId |-> migration_id, jobId |-> job_id,
                        correlationId |-> correlation_id, readyForCutover |-> FALSE]
                  ELSE Raised(StoreErrorMessage))
            ELSE IF ~job.success
            THEN [statusCode |-> 500, success |-> FALSE, error |-> job.message,
                  migrationId |-> migration_id, jobId |-> job_id,
                  correlationId |-> correlation_id, readyForCutover |-> FALSE]
            ELSE IF waiting
            THEN [statusCode |-> 202, success |-> TRUE, migrationId |-> migration_id,
                  jobId |-> job_id, jobStatus |-> job.job_status,
                  correlationId |-> correlation_id, readyForCutover |-> FALSE,
                  message |-> "Migration in progress, check back later"]
            ELSE [statusCode |-> 200, success |-> ready_for_cutover,
                  migrationId |-> migration_id, jobId |-> job_id,
                  jobStatus |-> job.job_status, replicationLag |-> lag,
                  healthStatus |-> health_status,
                  readyForCutover |-> ready_for_cutover,
                  correlationId |-> correlation_id, payload |-> payload]]

JobReports == {"NOT_FOUND", "PENDING", "STARTED", "COMPLETED", "SUCCEEDED", "FAILED"}

InstanceHealth == {"ok", "impaired", "not-ready"}

VerifyNewEvents(ids) ==
    Canonical(
        UNION {{BasePayload(m),
                With(BasePayload(m), "jobId", JobOf(VmOf(m))),
                With(With(BasePayload(m), "jobId", JobOf(VmOf(m))),
                     "targetInstanceId", InstanceOf(m))} : m \in ids})

VerifyMigrationNew(E) ==
    \E event \in VerifyNewEvents(E.ids), report \in JobReports,
       health \in InstanceHealth, lag \in {0, LagThreshold + 1},
       fault \in E.faults \cap NewFaults :
        InvokeNew(E, "verify_migration_new",
                  verify_migration_new(event, report, health, lag, fault))

----------------------------------------------------------------------------
(* callback_handler.py and callback_handler_new.py *)

\* What requests.post meets: an HTTP response with a status code, or a
\* RequestException (error is not "") because the URL timed out or could not
\* be reached
Reply(code) == [code |-> code, error |-> ""]

NoReply(error) == [code |-> 0, error |-> error]

HttpReplies ==
    {Reply(200), Reply(204), Reply(304), Reply(404), Reply(500),
     NoReply("timeout"), NoReply("unreachable")}

\* response.raise_for_status(): HTTPError for the 4xx and 5xx status codes
raise_for_status(reply) == reply.code \in 400..599

\* callback_handler.send_callback: the MigrationError it raises, or NoErr
send_callback(callback_url, reply) ==
    IF reply.error # "" \/ raise_for_status(reply)
    THEN to_dict("CALLBACK_ERROR", "Callback request failed", [url |-> callback_url])
    ELSE NoErr

callback_handler(event, reply) ==
    LET detail == GetOr(event, "detail", EmptyDict)
        migration_id == Get(detail, "migrationId")
        callback_url == Get(detail, "callbackUrl")
        e == send_callback(callback_url, reply)
    IN  [jobs |-> jobs, stopped |-> stopped, terminated |-> terminated,
         st |-> store, wrote |-> FALSE, pubs |-> {},
         calls |-> IF Truthy(callback_url) THEN <<"requests.post">> ELSE << >>,
         outcome |-> IF ~Truthy(callback_url) THEN "skipped"
                     ELSE IF IsErr(e) THEN "typed" ELSE "success",
         resp |->
            IF ~Truthy(callback_url)
            THEN [statusCode |-> 200,
                  body |-> [migrationId |-> migration_id, status |-> "SKIPPED",
                            reason |-> "No callback URL"]]
            ELSE IF IsErr(e)
            THEN [statusCode |-> 200,
                  body |-> [migrationId |-> GetOr(detail, "migrationId", "unknown"),
                            status |-> "CALLBACK_FAILED", error |-> e]]
            ELSE [statusCode |-> 200,
                  body |-> [migrationId |-> migration_id, status |-> "CALLBACK_SENT",
                            details |-> [status |-> "SUCCESS",
                                         statusCode |-> reply.code]]]]

CallbackUrl == "https://caller/hook"

\* The status events that reach the notifier, with and without a callback URL
CallbackEvents(ids) ==
    Canonical(
        {DirectEvent(p, FALSE) :
            p \in UNION {{With(BasePayload(m), "status", "SUCCESS"),
                          With(With(BasePayload(m), "status", "SUCCESS"),
                               "callbackUrl", CallbackUrl)} : m \in ids}})

Callback(E) ==
    \E event \in CallbackEvents(E.ids), reply \in HttpReplies :
        Invoke(E, "callback_handler", "direct", event, callback_handler(event, reply))

\* callback_handler_new.send_callback
send_callback_new(callback_url, reply) ==
    IF ~Truthy(callback_url) THEN StepResult(TRUE, "No callback URL")
    ELSE IF reply.error # "" THEN StepResult(FALSE, reply.error)
    ELSE IF reply.code \notin {200, 201, 202}
    THEN StepResult(FALSE, "Callback failed with status")
    ELSE StepResult(TRUE, "Callback sent successfully")

\* callback_handler_new.update_cmdb: update_item SET cmdbUpdate = :update on
\* the item of the migration, which the store creates when it does not exist;
\* the value is the JSON text of the update
update_cmdb_new(st, migration_id, status_payload, now) ==
    [st EXCEPT ![migration_id] =
        Update(IF Exists(st, migration_id) THEN st[migration_id]
               ELSE [migrationId |-> migration_id],
               [cmdbUpdate |->
                   [json |-> [timestamp        |-> now,
                              migrationId      |-> migration_id,
                              status           |-> Get(status_payload, "status"),
                              appName          |-> Get(status_payload, "appName"),
                              targetInstanceId |-> Get(status_payload, "targetInstanceId"),
                              targetIpAddress  |-> Get(status_payload, "targetIpAddress")]]])]

\* callback_handler_new.format_callback_payload: the fields that update_cmdb
\* reads
format_callback_payload_new(event) ==
    LET payload == GetOr(event, "detail", event)
    IN  [appName          |-> Get(payload, "appName"),
         status           |-> GetOr(event, "status", "IN_PROGRESS"),
         targetInstanceId |-> Get(event, "targetInstanceId"),
         targetIpAddress  |-> Get(event, "targetIpAddress")]

callback_handler_new(event, reply, fault) ==
    LET correlation_id == get_correlation_id
        migration_id == IF Truthy(Get(event, "migrationId")) THEN event["migrationId"]
                        ELSE Get(GetOr(event, "detail", EmptyDict), "migrationId")
        payload == GetOr(event, "detail", event)
        callback_url == Get(payload, "callbackUrl")
        callback_payload == format_callback_payload_new(event)
        sent == send_callback_new(callback_url, reply)
        cmdb_success == WriteOk(fault, "cmdb")
    IN  [mid |-> migration_id,
         correlationId |-> correlation_id,
         jobs |-> jobs, stopped |-> stopped, terminated |-> terminated,
         calls |-> IF Truthy(callback_url) THEN <<"requests.post">> ELSE << >>,
         attempts |-> << >>,
         st |-> IF cmdb_success
                THEN update_cmdb_new(store, migration_id, callback_payload, Now)
                ELSE store,
         wrote |-> cmdb_success,
         pubs |-> {},
         outcome |-> "success",
         resp |-> [statusCode |-> 200, success |-> TRUE,
                   migrationId |-> migration_id, correlationId |-> correlation_id,
                   callbackSent |-> sent.success, callbackMessage |-> sent.message,
                   cmdbUpdated |-> cmdb_success]]

\* The workflow hands the payload and the status it reached to the handler
CallbackNewEvents(ids) ==
    Canonical(
        UNION {{With(BasePayload(m), "status", "COMPLETED"),
                With(With(BasePayload(m), "status", "COMPLETED"),
                     "callbackUrl", CallbackUrl)} : m \in ids})

CallbackNew(E) ==
    \E event \in CallbackNewEvents(E.ids), reply \in HttpReplies,
       fault \in E.faults \cap {"none", "store"} :
        InvokeNew(E, "callback_handler_new", callback_handler_new(event, reply, fault))

----------------------------------------------------------------------------
(* common/eventbridge_helper.py, called on its own *)

\* What put_events answers for a batch of one entry
BusResponses ==
    {[FailedEntryCount |-> 0, Entries |-> <<[EventId |-> EventId]>>],
     [FailedEntryCount |-> 1, Entries |-> <<[ErrorCode |-> "InternalFailure"]>>],
     [FailedEntryCount |-> 1, Entries |-> <<[ErrorCode |-> "ThrottlingException"]>>]}

\* A publisher that does not read the failed entry count
Unchecked(response) == TRUE

\* if response.get("FailedEntryCount", 0) > 0: raise
Accepted(response) == ~(GetOr(response, "FailedEntryCount", 0) > 0)

\* What publish_event gives its caller: the event id of the first entry, or
\* the exception
publish_event_result(response) ==
    IF Accepted(response)
    THEN [eventId |-> Get(response.Entries[1], "EventId")]
    ELSE [raised |-> "Failed to publish event"]

PublisherCalls ==
    {"publish_event", "publish_success_event", "publish_failure_event",
     "publish_status_event"}

\* The optional details that a caller may pass along
DetailMaps ==
    {EmptyDict, [targetVmName |-> "vm-aws"], [status |-> "DECOMMISSIONED"],
     [correlationId |-> "cid-other"], [timestamp |-> "later"]}

\* The entries that a call of the publisher puts on the bus
PublisherCall(call, migration_id, correlation_id, details, busOk) ==
    CASE call = "publish_event" ->
            publish_event("MigrationRolledBack",
                          Update([migrationId |-> migration_id,
                                  correlationId |-> correlation_id], details),
                          "migration.orchestration", busOk)
      [] call = "publish_success_event" ->
            publish_success_event(migration_id, correlation_id, details, Now, busOk)
      [] call = "publish_failure_event" ->
            publish_failure_event(migration_id, correlation_id, "CUTOVER_ERROR",
                                  "Cutover failed", details, Now, busOk)
      [] call = "publish_status_event" ->
            publish_status_event(migration_id, correlation_id, "trigger_migration",
                                 "SUCCESS", details, Now, busOk)

\* One call of the publisher: pubs is what it put on the bus, result what it
\* gave its caller
Published(E, call, migration_id, correlation_id, pubs, result) ==
    /\ nInv < E.cap
    /\ nInv' = nInv + 1
    /\ bus' = bus \cup pubs
    /\ inv' = [handler       |-> call,
               via           |-> "direct",
               mid           |-> migration_id,
               cause         |-> NoneVal,
               correlationId |-> correlation_id,
               outcome       |-> IF Has(result, "raised") THEN "raised" ELSE "success",
               wrote         |-> FALSE,
               published     |-> pubs,
               response      |-> result,
               calls         |-> <<"events.put_events">>,
               attempts      |-> << >>,
               records       |-> << >>]
    /\ UNCHANGED <<store, nGen, jobs, stopped, terminated>>

Publish(E) ==
    \E call \in PublisherCalls, m \in E.ids, details \in DetailMaps,
       response \in BusResponses :
        Published(E, call, m, CallerCid(m),
                  PublisherCall(call, m, CallerCid(m), details, Accepted(response)),
                  publish_event_result(response))

----------------------------------------------------------------------------
(* common/correlation.py, called on its own *)

\* The events that the functions are called with: an event-level field or
\* none, a detail with or without the field or none, headers with or without
\* the header or none
CorrelationEvents ==
    LET EventLevelParts ==
            {EmptyDict, [correlation_id |-> "cid-event"], [correlation_id |-> ""]}
        DetailParts ==
            {EmptyDict, [detail |-> EmptyDict], [detail |-> [migrationId |-> "m1"]],
             [detail |-> [correlation_id |-> "cid-detail"]],
             [detail |-> [migrationId |-> "m1", correlation_id |-> "cid-detail"]]}
        HeaderParts ==
            {EmptyDict, [headers |-> EmptyDict],
             [headers |-> ("X-Correlation-ID" :> "cid-header")],
             [headers |-> ("X-Correlation-ID" :> "")],
             [headers |-> ("Host" :> "api")]}
    IN  Canonical({Update(Update(a, b), c) :
                      a \in EventLevelParts, b \in DetailParts, c \in HeaderParts})

CorrelationIds == {"cid-1", "mig-7", ""}

\* One call of a function of the module: event is its argument, result what it
\* returns
CorrelationCall(E, function, event, correlation_id, after, result) ==
    /\ nInv < E.cap
    /\ nInv' = nInv + 1
    /\ nGen' = IF function = "extract_correlation_id" /\ Generates(event)
               THEN nGen + 1 ELSE nGen
    /\ inv' = [handler       |-> function,
               via           |-> "direct",
               mid           |-> NoneVal,
               cause         |-> after,
               correlationId |-> correlation_id,
               outcome       |-> "success",
               wrote         |-> FALSE,
               published     |-> {},
               response      |-> result,
               calls         |-> << >>,
               attempts      |-> << >>,
               records       |-> <<event>>]
    /\ UNCHANGED <<store, bus, jobs, stopped, terminated>>

Inject(E) ==
    \E event \in CorrelationEvents, correlation_id \in CorrelationIds :
        CorrelationCall(E, "inject_correlation_id", event, correlation_id, NoneVal,
                        [event |-> inject_correlation_id(event, correlation_id)])

\* The event that the last call returned, when it was an injection
Injected ==
    IF inv.handler = "inject_correlation_id" THEN {inv.response.event} ELSE {}

Extract(E) ==
    \E event \in CorrelationEvents \cup Injected :
        CorrelationCall(E, "extract_correlation_id", event,
                        extract_correlation_id(event, nGen),
                        IF event \in Injected THEN inv.handler ELSE NoneVal,
                        [event          |-> event,
                         correlation_id |-> extract_correlation_id(event, nGen)])

----------------------------------------------------------------------------
(* validate_input.py: validate_payload_content, called on its own *)

\* The payloads that the validation is called with: each required field holds
\* a str, a value that is no str, or is absent
ValidationPayloads ==
    LET FieldValues == {"aws", "<int 3>", "absent"}
    IN  Canonical({[f \in {RequiredFields[i] : i \in {j \in 1..Len(RequiredFields) :
                                                        choice[j] # "absent"}}
                       |-> choice[CHOOSE i \in 1..Len(RequiredFields) :
                                      RequiredFields[i] = f]] :
                   choice \in [1..Len(RequiredFields) -> FieldValues]})

\* One call of validate_payload_content: error is what it raised, or NoErr
Validated(E, payload, error) ==
    /\ nInv < E.cap
    /\ nInv' = nInv + 1
    /\ inv' = [handler       |-> "validate_payload_content",
               via           |-> "direct",
               mid           |-> Get(payload, "migrationId"),
               cause         |-> NoneVal,
               correlationId |-> NoneVal,
               outcome       |-> IF IsErr(error) THEN "typed" ELSE "success",
               wrote         |-> FALSE,
               published     |-> {},
               response      |-> error,
               calls         |-> << >>,
               attempts      |-> << >>,
               records       |-> <<payload>>]
    /\ UNCHANGED <<store, bus, nGen, jobs, stopped, terminated>>

Validate(E) ==
    \E payload \in ValidationPayloads :
        Validated(E, payload, validate_payload_content(payload))

----------------------------------------------------------------------------
(* finalize_cutover.py: perform_cutover_steps, called on its own *)

\* The payloads that it is called with: no steps, or a list of names of which
\* some are not steps of the cutover
CutoverPayloads ==
    LET names == {"freeze", "replicate", "validate", "switch", "backup", "Freeze"}
    IN  Canonical({BasePayload("m1")} \cup
                  {With(BasePayload("m1"), "steps", steps) :
                      steps \in UNION {[1..n -> names] : n \in 0..MaxSteps}})

PerformCutoverSteps(E) ==
    \E payload \in CutoverPayloads :
        /\ nInv < E.cap
        /\ nInv' = nInv + 1
        /\ inv' = [handler       |-> "perform_cutover_steps",
                   via           |-> "direct",
                   mid           |-> Get(payload, "migrationId"),
                   cause         |-> NoneVal,
                   correlationId |-> NoneVal,
                   outcome       |-> "success",
                   wrote         |-> FALSE,
                   published     |-> {},
                   response      |-> perform_cutover_steps(payload),
                   calls         |-> << >>,
                   attempts      |-> << >>,
                   records       |-> <<payload>>]
        /\ UNCHANGED <<store, bus, nGen, jobs, stopped, terminated>>

----------------------------------------------------------------------------
(* The system *)

Init ==
    /\ store = [m \in Ids |-> NoItem]
    /\ bus = {}
    /\ nGen = 0
    /\ nInv = 0
    /\ jobs = {}
    /\ stopped = {}
    /\ terminated = {}
    /\ inv = [handler |-> "none", via |-> "none", mid |-> NoneVal,
              cause |-> NoneVal, correlationId |-> NoneVal, outcome |-> "none", wrote |-> FALSE,
              published |-> {}, response |-> EmptyDict, calls |-> << >>,
              attempts |-> << >>, records |-> << >>]

Run(E) ==
    \/ Ingress(E)
    \/ ValidateInputDirect(E)
    \/ ValidateInputFromBus(E)
    \/ PrepareSourceDirect(E)
    \/ TriggerMigrationDirect(E)
    \/ VerifyMigrationDirect(E)
    \/ FinalizeCutoverDirect(E)
    \/ RollbackDirect(E)
    \/ RollbackFromBus(E)

\* The saga: collaborator outages, a healthy store and bus
Next == Run(Saga)

Spec == Init /\ [][Next]_vars

\* Invocations during outages of the store and of the bus
NextFaults == Run(Outages)

SpecFaults == Init /\ [][NextFaults]_vars

\* Both generations of handlers on the same table, during outages; the store
\* may also fail a single write
Workflow ==
    [ids |-> {"m1"}, faults |-> Outages.faults \cup {"store-final"},
     busOk |-> BOOLEAN, cap |-> MaxFaultInv, batch |-> 1]

NextNew == Run(Workflow) \/ VerifyMigrationNew(Workflow) \/ RollbackNew(Workflow)

SpecNew == Init /\ [][NextNew]_vars

\* The handlers that the Step Functions workflow invokes, on their own
NextWorkflow == VerifyMigrationNew(Workflow) \/ RollbackNew(Workflow)

SpecWorkflow == Init /\ [][NextWorkflow]_vars

\* The phases and the two callback notifiers, during outages
NextCallback == Run(Outages) \/ Callback(Outages) \/ CallbackNew(Outages)

SpecCallback == Init /\ [][NextCallback]_vars

\* Two migrations side by side: the phase executors and the compensator, with
\* every collaborator available
Pair ==
    [ids |-> Ids, faults |-> {"none"}, busOk |-> {TRUE}, cap |-> MaxFaultInv,
     batch |-> 1]

NextPair ==
    \/ ValidateInputDirect(Pair)
    \/ PrepareSourceDirect(Pair)
    \/ TriggerMigrationDirect(Pair)
    \/ VerifyMigrationDirect(Pair)
    \/ FinalizeCutoverDirect(Pair)
    \/ RollbackDirect(Pair)

SpecPair == Init /\ [][NextPair]_vars

\* trigger_migration with every list of steps, before and after validate_input
NextTrigger == ValidateInputDirect(Saga) \/ TriggerMigrationSteps(Saga)

SpecTrigger == Init /\ [][NextTrigger]_vars

\* Calls of the cutover steps
NextCutover == PerformCutoverSteps(Outages)

SpecCutover == Init /\ [][NextCutover]_vars

\* Calls of the payload validation
NextValidate == Validate(Outages)

SpecValidate == Init /\ [][NextValidate]_vars

\* Calls of the correlation functions
NextCorrelation == Inject(Outages) \/ Extract(Outages)

SpecCorrelation == Init /\ [][NextCorrelation]_vars

\* Calls of the Event Publisher, with a bus that may reject the entry
NextPublish == Publish(Outages)

SpecPublish == Init /\ [][NextPublish]_vars

\* The queue delivers batches of up to MaxBatch messages to ingress, and the
\* bus may reject the entry of any of them
Queue ==
    [ids |-> {"m1"}, faults |-> {"none"}, busOk |-> BOOLEAN,
     cap |-> MaxFaultInv, batch |-> MaxBatch]

NextIngress == Ingress(Queue)

SpecIngress == Init /\ [][NextIngress]_vars

----------------------------------------------------------------------------
(* The state machine of the migration record *)

Chain ==
    <<"PENDING", "VALIDATED", "SOURCE_PREPARED", "MIGRATION_IN_PROGRESS",
      "VERIFIED", "COMPLETED">>

InChain(s) == \E i \in 1..Len(Chain) : Chain[i] = s

Rank(s) == CHOOSE i \in 1..Len(Chain) : Chain[i] = s

Terminal == {"COMPLETED", "ROLLED_BACK", "ROLLBACK_FAILED"}

States ==
    {"PENDING", "VALIDATED", "SOURCE_PREPARED", "MIGRATION_IN_PROGRESS", "VERIFIED",
     "VERIFICATION_FAILED", "COMPLETED", "ROLLBACK_IN_PROGRESS", "ROLLED_BACK",
     "ROLLBACK_FAILED"}

\* The edges: the immediate successor, a non-terminal state entering
\* ROLLBACK_IN_PROGRESS, and the two ends of a rollback
Edge(a, b) ==
    \/ InChain(a) /\ InChain(b) /\ Rank(b) = Rank(a) + 1
    \/ a = "MIGRATION_IN_PROGRESS" /\ b = "VERIFICATION_FAILED"
    \/ a \in States \ (Terminal \cup {"ROLLBACK_IN_PROGRESS"}) /\ b = "ROLLBACK_IN_PROGRESS"
    \/ a = "ROLLBACK_IN_PROGRESS" /\ b \in {"ROLLED_BACK", "ROLLBACK_FAILED"}

StatusOf(st, m) == IF Exists(st, m) THEN st[m]["status"] ELSE NoneVal

DetailsOf(st, m) == GetOr(st[m], "executionDetails", EmptyDict)

PhaseExecutors ==
    {"validate_input", "prepare_source", "trigger_migration", "verify_migration",
     "finalize_cutover"}

TargetStatus(handler) ==
    CASE handler = "validate_input"    -> "VALIDATED"
      [] handler = "prepare_source"    -> "SOURCE_PREPARED"
      [] handler = "trigger_migration" -> "MIGRATION_IN_PROGRESS"
      [] handler = "verify_migration"  -> "VERIFIED"
      [] handler = "finalize_cutover"  -> "COMPLETED"

\* The events that report a completed phase
Completed(e) ==
    \/ e.DetailType \in {"MigrationSucceeded", "MigrationRolledBack"}
    \/ e.DetailType = "MigrationStatusUpdated" /\ e.Detail["status"] \in {"SUCCESS", "IN_PROGRESS"}

\* The correlation IDs that ingress injected into a MigrationRequested event
\* of migration m
IngressCids(m) ==
    {e.Detail["detail"]["correlation_id"] :
        e \in {x \in bus : x.DetailType = "MigrationRequested"
                           /\ x.Detail["migrationId"] = m}}

----------------------------------------------------------------------------
(* Claims *)

\* C1: whatever the order of the delivered phase events, the status of a
\* record never moves backwards along PENDING < VALIDATED < SOURCE_PREPARED <
\* MIGRATION_IN_PROGRESS < VERIFIED < COMPLETED.
C1_StatusNeverRegresses ==
    [][\A m \in Ids :
        (InChain(StatusOf(store, m)) /\ InChain(StatusOf(store', m)))
            => Rank(StatusOf(store', m)) >= Rank(StatusOf(store, m))]_vars

\* C2: once the status of a record is COMPLETED, ROLLED_BACK or
\* ROLLBACK_FAILED, no later operation changes it.
C2_TerminalIsFinal ==
    [][\A m \in Ids :
        StatusOf(store, m) \in Terminal
            => StatusOf(store', m) = StatusOf(store, m)]_vars

\* C3: an update_migration_status call keeps every executionDetails key that
\* the record held before the call (the delta is merged, the map is not
\* replaced).
C3_ExecutionDetailsAdditive ==
    [][\A m \in Ids :
        (/\ nInv' = nInv + 1
         /\ inv'.handler \in (PhaseExecutors \ {"validate_input"}) \cup {"rollback_handler"}
         /\ inv'.mid = m
         /\ inv'.wrote)
            => DOMAIN DetailsOf(store, m) \subseteq DOMAIN DetailsOf(store', m)]_vars

\* C4: the correlationId that validate-input stores for a MigrationRequested
\* event is the one that ingress injected into that event.
C4_CorrelationEndToEnd ==
    (inv.handler = "validate_input" /\ inv.via = "bus" /\ inv.wrote)
        => store[inv.mid]["correlationId"] \in IngressCids(inv.mid)

\* C5: when the rollback triggered by a failure event of verify-migration or
\* finalize-cutover has marked the record ROLLED_BACK, every job that
\* trigger-migration started for the migration has been asked to stop.
C5_RollbackStopsStartedJob ==
    (/\ inv.handler = "rollback_handler"
     /\ inv.via = "bus"
     /\ inv.cause \in {"VERIFICATION_ERROR", "CUTOVER_ERROR"}
     /\ StatusOf(store, inv.mid) = "ROLLED_BACK")
        => \A j \in jobs : j.mid = inv.mid => j.vm \in stopped

\* C6: a phase executor that fails with an untyped error returns the generic
\* failure response and publishes a failure event for the compensator.
C6_UntypedErrorReachesRollback ==
    (inv.handler \in PhaseExecutors /\ inv.outcome = "untyped")
        => /\ inv.response.statusCode = 500
           /\ \E e \in inv.published : e.DetailType = "MigrationFailed"

\* C7: a phase executor that hits its typed error persists the failure into
\* the record, publishes a failure event and returns the structured error.
C7_TypedErrorPersistedAndPublished ==
    (inv.handler \in PhaseExecutors /\ inv.outcome = "typed")
        => /\ inv.wrote
           /\ \E e \in inv.published : e.DetailType = "MigrationFailed"
           /\ Has(inv.response.body, "error_code")

\* C8: an invocation publishes a phase-completed event only when its record
\* write succeeded; without the write it publishes none and its response is
\* not a success response.
C8_PublishOnlyAfterWrite ==
    inv.handler \in PhaseExecutors \cup {"rollback_handler"}
        => /\ (\E e \in inv.published : Completed(e)) => inv.wrote
           /\ ~inv.wrote => inv.response.statusCode # 200

\* C8 witness: the record write of finalize-cutover failed; nothing was
\* published and the response is the generic failure.
C8_Witness ==
    /\ inv.handler = "finalize_cutover"
    /\ inv.outcome = "untyped"
    /\ ~inv.wrote
    /\ inv.published = {}
    /\ inv.response.statusCode = 500

\* C9: a phase executor that succeeds on an event for a record whose status
\* is already at or beyond its target leaves status and executionDetails as
\* they were.
C9_IdempotentReentry ==
    [][\A m \in Ids :
        (/\ nInv' = nInv + 1
         /\ inv'.handler \in PhaseExecutors
         /\ inv'.mid = m
         /\ inv'.outcome = "success"
         /\ InChain(StatusOf(store, m))
         /\ Rank(StatusOf(store, m)) >= Rank(TargetStatus(inv'.handler)))
            => /\ StatusOf(store', m) = StatusOf(store, m)
               /\ DetailsOf(store', m) = DetailsOf(store, m)]_vars

\* C10: every status written is a state of the state machine and every change
\* of the status of a record is an edge of it.
C10_StatusChangesAreEdges ==
    [][\A m \in Ids :
        /\ Exists(store', m) => StatusOf(store', m) \in States
        /\ (Exists(store, m) /\ StatusOf(store', m) # StatusOf(store, m))
               => Edge(StatusOf(store, m), StatusOf(store', m))]_vars

\* C11: a rollback of a migration that only reached VALIDATED (no job
\* started, triggered by the failure event of prepare-source) ends in
\* ROLLED_BACK and records no compensation step as failed.
C11_RollbackOnPartialState ==
    [][\A m \in Ids :
        (/\ StatusOf(store, m) = "VALIDATED"
         /\ ~\E j \in jobs : j.mid = m
         /\ nInv' = nInv + 1
         /\ inv'.handler = "rollback_handler"
         /\ inv'.via = "bus"
         /\ inv'.cause = "SOURCE_PREPARATION_ERROR"
         /\ inv'.mid = m
         /\ inv'.wrote)
            => /\ StatusOf(store', m) = "ROLLED_BACK"
               /\ \A k \in DOMAIN DetailsOf(store', m) :
                      DetailsOf(store', m)[k]["status"] # "FAILED"]_vars

\* C12: after the compensator ran, the record is ROLLED_BACK when the record
\* update succeeded and ROLLBACK_FAILED otherwise, never a non-terminal
\* status; the compensator publishes no failure event that would trigger it
\* again.
C12_RollbackEndsTerminal ==
    inv.handler = "rollback_handler"
        => /\ StatusOf(store, inv.mid) =
                  (IF inv.wrote THEN "ROLLED_BACK" ELSE "ROLLBACK_FAILED")
           /\ ~\E e \in inv.published : e.DetailType = "MigrationFailed"

\* The compensations of each compensator, in the order of its code
CompensationOrder(handler) ==
    IF handler = "rollback_handler"
    THEN <<"mgnReplication", "targetInstance", "sourceState", "notification">>
    ELSE <<"cancel_mgn_job", "revert_target_instance", "restore_source_vm",
           "restore_previous_state", "notify_stakeholders">>

\* C13: a compensator that started its compensations attempts all of them in
\* the fixed order stop/cancel, terminate/revert, restore, notify, whichever
\* of them fail.
C13_AllCompensationsInOrder ==
    (\/ inv.handler = "rollback_handler"
     \/ inv.handler = "rollback_handler_new" /\ inv.outcome # "raised")
        => inv.attempts = CompensationOrder(inv.handler)

\* C13 witness: stopping the replication failed, and the rollback still
\* issued the termination of the target and went through all four steps.
C13_Witness ==
    /\ inv.handler = "rollback_handler"
    /\ inv.outcome = "success"
    /\ Has(inv.response.body.rollbackDetails, "mgnReplication")
    /\ Failed(inv.response.body.rollbackDetails["mgnReplication"])
    /\ inv.calls = <<"mgn.discontinue_from_launch", "ec2.terminate_instances">>
    /\ inv.attempts = CompensationOrder("rollback_handler")

\* The attempts of an invocation that are compensation steps (the restore of
\* the previous record state is not one of the four)
CompensationsAttempted ==
    SelectSeq(inv.attempts, LAMBDA k : k # "restore_previous_state")

\* C14: after a rollback that wrote ROLLED_BACK, executionDetails.rollbackSteps
\* of the record holds one entry for each compensation step that was executed,
\* each stating the success or failure of its step.
C14_RollbackStepsRecorded ==
    (/\ inv.handler \in {"rollback_handler", "rollback_handler_new"}
     /\ inv.wrote
     /\ StatusOf(store, inv.mid) = "ROLLED_BACK")
        => LET d == DetailsOf(store, inv.mid)
           IN  /\ Has(d, "rollbackSteps")
               /\ Len(d["rollbackSteps"]) = Len(CompensationsAttempted)
               /\ \A i \in 1..Len(d["rollbackSteps"]) :
                      \/ Has(d["rollbackSteps"][i], "success")
                      \/ Has(d["rollbackSteps"][i], "status")

\* The statuses and the executionDetails deltas that update_migration_status
\* is called with
UpdateStatuses ==
    {"SOURCE_PREPARED", "MIGRATION_IN_PROGRESS", "VERIFIED", "COMPLETED", "ROLLED_BACK"}

UpdateDeltas ==
    {EmptyDict,
     [health |-> check_application_health(BasePayload("m1"))],
     [dns |-> update_dns(BasePayload("m1")), cmdb |-> update_cmdb(BasePayload("m1"))]}

\* C15: for every record, status and delta, a second update_migration_status
\* call with the same arguments leaves status and executionDetails as the
\* first call left them.
C15_UpdateStatusIdempotent ==
    \A m \in Ids, status \in UpdateStatuses, delta \in UpdateDeltas :
        LET once  == update_migration_status(store, m, status, delta, Now)
            twice == update_migration_status(once, m, status, delta, Now)
        IN  /\ StatusOf(twice, m) = StatusOf(once, m)
            /\ DetailsOf(twice, m) = DetailsOf(once, m)

\* C15 witness: a record that holds the result of prepare-source, on which
\* an update with another status and a non-empty delta changes both status
\* and executionDetails.
C15_Witness ==
    /\ StatusOf(store, "m1") = "SOURCE_PREPARED"
    /\ Has(DetailsOf(store, "m1"), "sourcePreparation")
    /\ LET delta == [health |-> check_application_health(BasePayload("m1"))]
           once  == update_migration_status(store, "m1", "VERIFIED", delta, Now)
       IN  /\ StatusOf(once, "m1") = "VERIFIED"
           /\ DetailsOf(once, "m1") = delta
           /\ DetailsOf(once, "m1") # DetailsOf(store, "m1")

\* The fields of a record that are set once
SetOnce == {"correlationId", "wave", "appName", "source", "target", "environment"}

HoldsSetOnce(st, m) ==
    /\ Exists(st, m)
    /\ \A f \in SetOnce : Has(st[m], f) /\ st[m][f] # NoneVal

\* C16: once a record holds correlationId, wave, appName, source, target and
\* environment, no later operation on the migration changes any of them.
C16_SetOnceFieldsImmutable ==
    [][\A m \in Ids :
        HoldsSetOnce(store, m)
            => \A f \in SetOnce : Has(store'[m], f) /\ store'[m][f] = store[m][f]]_vars

\* The correlation IDs carried by the events on the bus that trigger handler
\* for migration m
TriggerCids(handler, m) ==
    IF handler = "validate_input" THEN IngressCids(m)
    ELSE {e.Detail["correlationId"] :
            e \in {x \in bus : x.DetailType = "MigrationFailed"
                               /\ x.Detail["migrationId"] = m}}

\* C17: an invocation triggered by an event of an upstream component uses the
\* correlation ID carried by that event, for itself and in every event it
\* publishes.
C17_DownstreamReusesCorrelationId ==
    inv.via = "bus"
        => /\ inv.correlationId \in TriggerCids(inv.handler, inv.mid)
           /\ \A e \in inv.published :
                  e.Detail["correlationId"] \in TriggerCids(inv.handler, inv.mid)

\* How many entries of a list of the report carry the message ID
Mentions(list, messageId) ==
    Cardinality({i \in 1..Len(list) : list[i].messageId = messageId})

\* The record was parsed, passed the schema, and exactly one MigrationRequested
\* event was published for it
Ingested(rec) ==
    /\ Parses(rec.body)
    /\ ~IsErr(validate_message(rec.body))
    /\ Cardinality(rec.pubs) = 1
    /\ \A e \in rec.pubs : e.DetailType = "MigrationRequested"

\* C18: ingress answers every batch with statusCode 200 and a report in which
\* each record's messageId appears once, in exactly one of successful and
\* failed; it is in successful iff the record parsed, passed the schema and
\* had exactly one MigrationRequested event published; nothing is published
\* for a failed record; and every record of the batch is processed, whatever
\* happened to the records before it.
C18_IngressBatchReport ==
    inv.handler = "ingress_handler"
        => LET report == inv.response.body
           IN  /\ inv.response.statusCode = 200
               /\ Len(report.successful) + Len(report.failed) = Len(inv.records)
               /\ \A i \in 1..Len(inv.records) :
                      LET rec == inv.records[i]
                          inSuccessful == Mentions(report.successful, rec.messageId)
                          inFailed == Mentions(report.failed, rec.messageId)
                      IN  /\ inSuccessful + inFailed = 1
                          /\ inSuccessful = 1 <=> Ingested(rec)
                          /\ inFailed = 1 => rec.pubs = {}
               /\ inv.published = UNION {inv.records[i].pubs : i \in 1..Len(inv.records)}

\* C18 witness: a batch whose first message lacks a required field and whose
\* second is valid is answered with one failed and one successful entry, each
\* tagged with its messageId, and the event of the second message
C18_Witness ==
    /\ inv.handler = "ingress_handler"
    /\ Len(inv.records) = 2
    /\ IsErr(validate_message(inv.records[1].body))
    /\ Parses(inv.records[1].body)
    /\ Len(inv.response.body.failed) = 1
    /\ inv.response.body.failed[1].messageId = MessageIdOf(1)
    /\ Len(inv.response.body.successful) = 1
    /\ inv.response.body.successful[1].messageId = MessageIdOf(2)
    /\ Cardinality(inv.published) = 1

\* The last invocation was a verification that found the replication lag of
\* an existing migration above the threshold
LagExceeded ==
    /\ inv.handler = "verify_migration"
    /\ inv.outcome = "typed"
    /\ Exists(store, inv.mid)
    /\ Has(inv.response.body.details, "lag")
    /\ inv.response.body.details["lag"] > LagThreshold

\* C19: the lag check passes exactly when the lag is at most the threshold of
\* 300 seconds; a lag above it surfaces as VERIFICATION_FAILED (as the status
\* of the record, or as the code of the error in the response or in the
\* failure event), the failure carries the lag in its details, and a
\* MigrationFailed event, which triggers the rollback, is published.
C19_LagAboveThresholdFailsVerification ==
    /\ \A lag \in Lags : validate_replication_lag(lag, LagThreshold) <=> lag <= 300
    /\ LagExceeded
           => /\ \/ StatusOf(store, inv.mid) = "VERIFICATION_FAILED"
                 \/ inv.response.body.error_code = "VERIFICATION_FAILED"
                 \/ \E e \in inv.published :
                        e.Detail["errorCode"] = "VERIFICATION_FAILED"
              /\ inv.response.body.details["lag"] \in Lags
              /\ \E e \in inv.published : e.DetailType = "MigrationFailed"

\* The statuses of a job that the migration service is still working on
InProgress == {"PENDING", "STARTED"}

\* The handler got as far as asking the migration service, and was answered
Answers(event, fault) ==
    /\ Truthy(Get(event, "jobId"))
    /\ WriteOk(fault, "first")
    /\ ~Down(fault, "mgn")

\* C20: when the migration service reports a job status that is not terminal,
\* verify-migration answers with success and readyForCutover = false: the
\* record does not become VERIFICATION_FAILED, no event is published, and the
\* response does not report a failure that would start the rollback.
C20_JobInProgressIsNotFailure ==
    [][inv'.handler = "verify_migration_new"
        => \A event \in VerifyNewEvents(Workflow.ids), report \in InProgress,
              health \in InstanceHealth, lag \in {0, LagThreshold + 1},
              fault \in Workflow.faults \cap NewFaults :
               (/\ Answers(event, fault)
                /\ InvokeNew(Workflow, "verify_migration_new",
                       verify_migration_new(event, report, health, lag, fault)))
               => /\ inv'.response.success
                  /\ inv'.response.statusCode \in 200..299
                  /\ ~inv'.response.readyForCutover
                  /\ inv'.response.jobStatus = report
                  /\ StatusOf(store', inv'.mid) = "VERIFYING_MIGRATION"
                  /\ inv'.published = {}
                  /\ bus' = bus]_vars

\* C20 witness: a verification that found the job started but not finished
\* answered that the migration is in progress and left the record verifying
C20_Witness ==
    /\ inv.handler = "verify_migration_new"
    /\ inv.outcome = "waiting"
    /\ inv.response.jobStatus = "STARTED"
    /\ ~inv.response.readyForCutover
    /\ StatusOf(store, inv.mid) = "VERIFYING_MIGRATION"

\* The callback was not delivered: no response, or a response that is not 2xx
DeliveryFailed(reply) == reply.error # "" \/ reply.code \notin 200..299

\* C21: when the delivery of a callback fails (a response that is not 2xx, a
\* timeout, an unreachable URL), the notifier answers without an error status,
\* its response body records the failure (CALLBACK_FAILED, callbackSent =
\* false), and the status of the migration's record is what it was.
C21_CallbackFailureIsRecordedNotRaised ==
    [][inv'.handler \in {"callback_handler", "callback_handler_new"}
        => /\ \A event \in CallbackEvents(Outages.ids), reply \in HttpReplies :
                  (/\ Truthy(Get(event["detail"], "callbackUrl"))
                   /\ DeliveryFailed(reply)
                   /\ Invoke(Outages, "callback_handler", "direct", event,
                             callback_handler(event, reply)))
                  => /\ inv'.response.statusCode = 200
                     /\ inv'.response.body.status = "CALLBACK_FAILED"
                     /\ Get(store'[inv'.mid], "status") = Get(store[inv'.mid], "status")
           /\ \A event \in CallbackNewEvents(Outages.ids), reply \in HttpReplies,
                 fault \in Outages.faults \cap {"none", "store"} :
                  (/\ Truthy(Get(event, "callbackUrl"))
                   /\ DeliveryFailed(reply)
                   /\ InvokeNew(Outages, "callback_handler_new",
                                callback_handler_new(event, reply, fault)))
                  => /\ inv'.response.statusCode = 200
                     /\ inv'.response.success
                     /\ ~inv'.response.callbackSent
                     /\ Get(store'[inv'.mid], "status") = Get(store[inv'.mid], "status")]_vars

\* C22: when a phase executor has persisted its result and the publication of
\* the phase event then fails, the record keeps the status that the phase
\* wrote and the invocation still reports the outcome of the phase, not a
\* failure.
C22_PublishFailureIsNotFatal ==
    (inv.handler \in PhaseExecutors /\ inv.wrote /\ inv.published = {})
        => /\ StatusOf(store, inv.mid) = TargetStatus(inv.handler)
           /\ inv.response.statusCode = 200
           /\ Get(inv.response.body, "status") = TargetStatus(inv.handler)

\* C23: no invocation lets an exception escape: whatever the event and
\* whatever fails (a collaborator, the store, the bus, or the store while the
\* failure is being recorded), the handler returns a structured response.
C23_NoExceptionEscapes ==
    inv.handler # "none"
        => /\ inv.outcome # "raised"
           /\ Has(inv.response, "statusCode")

\* C24: publish returns an event id iff the bus reports no failed entry for
\* the batch; when the bus reports a failed entry, publish fails with an error,
\* returns no event id, and nothing is on the bus.
C24_PublishReturnsIdIffNoFailedEntry ==
    [][\A call \in PublisherCalls, m \in Outages.ids, details \in DetailMaps,
          response \in BusResponses :
           Published(Outages, call, m, CallerCid(m),
                     PublisherCall(call, m, CallerCid(m), details, Accepted(response)),
                     publish_event_result(response))
           => /\ Has(inv'.response, "eventId") <=> response.FailedEntryCount = 0
              /\ response.FailedEntryCount = 0
                     => inv'.response.eventId = response.Entries[1].EventId
              /\ response.FailedEntryCount > 0
                     => Has(inv'.response, "raised") /\ inv'.published = {}]_vars

\* C24 witness: a call of the publisher that the bus answered with a failed
\* entry raised and published nothing
C24_Witness ==
    /\ inv.handler \in PublisherCalls
    /\ inv.outcome = "raised"
    /\ ~Has(inv.response, "eventId")
    /\ inv.published = {}

\* The fields that every event of the convenience variants carries
FixedFields == {"migrationId", "correlationId", "status", "timestamp"}

\* C25: every event of publishSuccess, publishFailure and publishStatus
\* carries migrationId, correlationId, status and timestamp, and its
\* migrationId and correlationId are the arguments of the caller, whatever
\* details are passed along.
C25_FixedFieldsSurviveDetails ==
    inv.handler \in PublisherCalls \ {"publish_event"}
        => \A e \in inv.published :
               /\ FixedFields \subseteq DOMAIN e.Detail
               /\ e.Detail["migrationId"] = inv.mid
               /\ e.Detail["correlationId"] = inv.correlationId
               /\ e.Detail["status"] \in {"SUCCESS", "FAILED"}
               /\ e.Detail["timestamp"] = Now

\* The phase-status events of an invocation: those that name its step
PhaseStatusEvents ==
    {e \in inv.published : /\ Has(e.Detail, "currentStep")
                           /\ e.Detail["currentStep"] = inv.handler}

\* C26: every invocation of a phase executor publishes one phase-status event
\* that names the step, with status SUCCESS when the phase completed and
\* FAILED when it failed.
C26_OnePhaseStatusEventPerInvocation ==
    inv.handler \in PhaseExecutors
        => /\ Cardinality(PhaseStatusEvents) = 1
           /\ \A e \in PhaseStatusEvents :
                  e.Detail["status"] = IF inv.outcome = "success" THEN "SUCCESS"
                                                                 ELSE "FAILED"

\* What the response of the invocation reports: its body when it has one
Reported ==
    IF Has(inv.response, "body") THEN inv.response.body ELSE inv.response

\* C27: the response of every invocation of a phase executor contains the
\* migrationId, the correlationId and the resulting status and, when the
\* invocation failed, the structured error (code, message, details).
C27_ResponseCarriesIdsStatusAndError ==
    inv.handler \in PhaseExecutors
        => /\ {"migrationId", "correlationId", "status"} \subseteq DOMAIN Reported
           /\ inv.outcome # "success"
                  => {"error_code", "message", "details"} \subseteq DOMAIN Reported

\* The event carries no correlation field at the event level, in the detail
\* or in the headers
NoCorrelationField(event) ==
    /\ ~Has(event, "correlation_id")
    /\ ~(Has(event, "detail") /\ Has(event["detail"], "correlation_id"))
    /\ ~(Has(event, "headers") /\ Has(event["headers"], "X-Correlation-ID"))

\* after is before with detail.correlation_id set to id and nothing else changed
SetsOnlyDetailField(before, after, id) ==
    LET detail == GetOr(before, "detail", EmptyDict)
    IN  /\ DOMAIN after = DOMAIN before \cup {"detail"}
        /\ \A k \in DOMAIN before \ {"detail"} : after[k] = before[k]
        /\ DOMAIN after["detail"] = DOMAIN detail \cup {"correlation_id"}
        /\ after["detail"]["correlation_id"] = id
        /\ \A k \in DOMAIN detail \ {"correlation_id"} : after["detail"][k] = detail[k]

\* C28: for every event without a correlation field and every id, inject sets
\* the id at event.detail.correlation_id and changes no other field, and
\* extract of the injected event returns that id.
C28_InjectExtractRoundTrip ==
    [][/\ (inv'.handler = "inject_correlation_id" /\ NoCorrelationField(inv'.records[1]))
           => SetsOnlyDetailField(inv'.records[1], inv'.response.event,
                                  inv'.correlationId)
       /\ (/\ inv.handler = "inject_correlation_id"
           /\ NoCorrelationField(inv.records[1])
           /\ inv'.handler = "extract_correlation_id"
           /\ inv'.records[1] = inv.response.event)
           => inv'.response.correlation_id = inv.correlationId]_vars

\* C28 witness: extract was called with the event that inject returned, and
\* returned the id found in its detail
C28_Witness ==
    /\ inv.handler = "extract_correlation_id"
    /\ inv.cause = "inject_correlation_id"
    /\ ~Has(inv.records[1], "correlation_id")
    /\ ~Has(inv.records[1], "headers")
    /\ inv.records[1]["detail"]["correlation_id"] = "cid-1"
    /\ inv.response.correlation_id = "cid-1"

\* C29: extract returns the event-level correlation_id, else
\* detail.correlation_id, else the X-Correlation-ID header when present and
\* non-empty, else a newly generated ID with prefix mig-; and it leaves the
\* event as it was.
C29_ExtractPriority ==
    inv.handler = "extract_correlation_id"
        => LET event == inv.records[1]
               id    == inv.response.correlation_id
           IN  /\ inv.response.event = event
               /\ IF Has(event, "correlation_id")
                     THEN id = event["correlation_id"]
                  ELSE IF Has(event, "detail") /\ Has(event["detail"], "correlation_id")
                     THEN id = event["detail"]["correlation_id"]
                  ELSE IF /\ Has(event, "headers")
                          /\ Has(event["headers"], "X-Correlation-ID")
                          /\ event["headers"]["X-Correlation-ID"] # ""
                     THEN id = event["headers"]["X-Correlation-ID"]
                  ELSE Len(id) > 4 /\ SubSeq(id, 1, 4) = "mig-"

\* C29 witness: extract was called with an event that has the id in its detail
\* and in its header, and returned the one of the detail
C29_Witness ==
    /\ inv.handler = "extract_correlation_id"
    /\ ~Has(inv.records[1], "correlation_id")
    /\ Has(inv.records[1], "detail") /\ Has(inv.records[1], "headers")
    /\ Get(inv.records[1]["detail"], "correlation_id") = "cid-detail"
    /\ Get(inv.records[1]["headers"], "X-Correlation-ID") = "cid-header"
    /\ inv.response.correlation_id = "cid-detail"

\* The six required fields, in the order in which they are reported
SixFields == <<"migrationId", "appName", "source", "target", "environment", "wave">>

\* The positions of the fields that the payload lacks or holds as a non-string
ViolatingPositions(payload) ==
    {i \in 1..Len(SixFields) :
        ~Has(payload, SixFields[i]) \/ payload[SixFields[i]] = "<int 3>"}

\* C30: the payload validation accepts iff the six required fields are all
\* present and strings; otherwise it raises a ValidationError that names the
\* first field, in the order of the six, that is missing or is no string.
C30_ValidationAcceptsIffSixStrings ==
    inv.handler = "validate_payload_content"
        => LET payload == inv.records[1]
               V       == ViolatingPositions(payload)
           IN  /\ (inv.outcome = "success") <=> (V = {})
               /\ V = {} => ~IsErr(inv.response)
               /\ V # {} =>
                      /\ inv.response.error_code = "VALIDATION_ERROR"
                      /\ inv.response.details.field
                            = SixFields[CHOOSE i \in V : \A j \in V : i <= j]

\* C30 witness: a payload that lacks target and holds a number as appName was
\* refused with appName as the violating field
C30_Witness ==
    /\ inv.handler = "validate_payload_content"
    /\ ~Has(inv.records[1], "target")
    /\ Get(inv.records[1], "appName") = "<int 3>"
    /\ Get(inv.records[1], "migrationId") = "aws"
    /\ inv.outcome = "typed"
    /\ inv.response.details.field = "appName"

\* C31: an invocation of validate_input saves the record, with status
\* VALIDATED and its correlation ID, and reports VALIDATED iff the content
\* validation, the AWS check and the MGN check succeed, in that order; when one
\* of them fails the store is left as it was, the response is an error
\* response and a MigrationFailed event with the error code of the first
\* failing check is published.
C31_ValidateSavesIffChecksSucceed ==
    [][inv'.handler = "validate_input" =>
        \A event \in ValidateEvents(Saga.ids), fault \in Saga.faults \cap ValidateFaults :
            Invoke(Saga, "validate_input", "direct", event,
                   validate_input(event, fault, TRUE))
            => LET detail    == event["detail"]
                   m         == detail["migrationId"]
                   contentOk == ViolatingPositions(detail) = {}
                   awsOk     == ~(fault = "aws" /\ Has(detail, "subnetId"))
                   mgnOk     == fault # "mgn"
                   code      == IF contentOk THEN "PREREQUISITE_ERROR"
                                ELSE "VALIDATION_ERROR"
                   about     == IF ~contentOk THEN "field"
                                ELSE IF ~awsOk THEN "resource" ELSE "service"
               IN  IF contentOk /\ awsOk /\ mgnOk
                   THEN /\ inv'.wrote
                        /\ store'[m]["status"] = "VALIDATED"
                        /\ store'[m]["correlationId"] = inv'.correlationId
                        /\ \A i \in 1..Len(SixFields) :
                               store'[m][SixFields[i]] = detail[SixFields[i]]
                        /\ \A o \in DOMAIN store \ {m} : store'[o] = store[o]
                        /\ inv'.response.statusCode = 200
                        /\ inv'.response.body["status"] = "VALIDATED"
                   ELSE /\ ~inv'.wrote
                        /\ store' = store
                        /\ inv'.response.statusCode # 200
                        /\ inv'.response.body.error_code = code
                        /\ Has(inv'.response.body.details, about)
                        /\ \E e \in inv'.published :
                               /\ e.DetailType = "MigrationFailed"
                               /\ e.Detail["migrationId"] = m
                               /\ e.Detail["errorCode"] = code]_vars

\* C31 witness: validate_input refused a payload: the store has no record and
\* the published event names the validation error
C31_Witness ==
    /\ inv.handler = "validate_input"
    /\ inv.outcome = "typed"
    /\ ~Exists(store, inv.mid)
    /\ inv.response.body.error_code = "VALIDATION_ERROR"
    /\ \E e \in inv.published : /\ e.DetailType = "MigrationFailed"
                                 /\ e.Detail["errorCode"] = "VALIDATION_ERROR"

\* C32: when the decommission of the source fails in finalize_cutover, the
\* invocation fails, and the cutover steps and the DNS update, which completed
\* before it, are recorded as completed for the migration.
C32_EarlierSubStepsStayRecorded ==
    (inv.handler = "finalize_cutover" /\ inv.outcome = "typed" /\ Exists(store, inv.mid))
        => /\ inv.response.statusCode # 200
           /\ Has(DetailsOf(store, inv.mid), "cutover")
           /\ Has(DetailsOf(store, inv.mid), "dns")

\* C33: the bus never holds both a MigrationSucceeded event and a
\* MigrationRolledBack event of the same migration.
C33_OutcomeIsExclusive ==
    \A m \in Ids :
        ~(/\ \E e \in bus : e.DetailType = "MigrationSucceeded"
                             /\ e.Detail["migrationId"] = m
          /\ \E e \in bus : e.DetailType = "MigrationRolledBack"
                             /\ e.Detail["migrationId"] = m)

\* The names of the steps that a cutover records
RecordedNames == {"freeze", "replicate", "validate", "switch"}

\* C34: stepsPerformed holds one COMPLETED entry for each step of the list
\* that is named freeze, replicate, validate or switch, in the order of the
\* list and as often as the list names it, and nothing for any other name.
C34_StepsPerformedIsFilteredList ==
    inv.handler = "perform_cutover_steps"
        => LET steps     == GetOr(inv.records[1], "steps", << >>)
               kept      == SelectSeq(steps, LAMBDA n : n \in RecordedNames)
               performed == inv.response.stepsPerformed
           IN  /\ Len(performed) = Len(kept)
               /\ \A i \in 1..Len(kept) :
                      /\ performed[i].step = kept[i]
                      /\ performed[i].status = "COMPLETED"

\* C34 witness: a list that names switch twice around a name that is no step
\* gave two entries for switch
C34_Witness ==
    /\ inv.handler = "perform_cutover_steps"
    /\ GetOr(inv.records[1], "steps", << >>) = <<"switch", "backup", "switch">>
    /\ Len(inv.response.stepsPerformed) = 2
    /\ \A i \in 1..2 : inv.response.stepsPerformed[i].step = "switch"

\* The record of m that each invocation for m would leave, for every event
\* that carries its correlation ID
WouldWrite(m) ==
    <<[x \in {e \in ValidateEvents({m}) : ~Generates(e)} \X (Pair.faults \cap ValidateFaults)
          |-> validate_input(x[1], x[2], TRUE).st[m]],
      [x \in PrepareEvents({m}) \X (Pair.faults \cap PrepareFaults)
          |-> prepare_source(x[1], x[2], TRUE).st[m]],
      [x \in TriggerEvents({m}) \X (Pair.faults \cap TriggerFaults)
          |-> trigger_migration(x[1], x[2], TRUE).st[m]],
      [x \in VerifyEvents({m}) \X Lags \X (Pair.faults \cap VerifyFaults)
          |-> verify_migration(x[1], x[2], x[3], TRUE).st[m]],
      [x \in FinalizeEvents({m}) \X (Pair.faults \cap FinalizeFaults)
          |-> finalize_cutover(x[1], x[2], TRUE).st[m]],
      [x \in RollbackEvents({m}) \X (Pair.faults \cap RollbackFaults)
          |-> rollback_handler(x[1], x[2], TRUE).st[m]]>>

\* C35: an invocation for one migrationId leaves the record of every other
\* id as it was, and does not change what any invocation for another id
\* would write to that id's record: the record of a migration is the one that
\* its own invocations produce alone.
C35_MigrationsAreIndependent ==
    [][\A m \in Ids :
          inv'.mid # m => /\ store'[m] = store[m]
                          /\ WouldWrite(m)' = WouldWrite(m)]_vars

\* C35 witness: an invocation for m2 wrote its record while m1 had a record
\* with another status
C35_Witness ==
    /\ inv.mid = "m2" /\ inv.wrote
    /\ Exists(store, "m1") /\ Exists(store, "m2")
    /\ StatusOf(store, "m1") = "VALIDATED"
    /\ StatusOf(store, "m2") = "ROLLED_BACK"

\* C36: for an event with a callback URL, the notifier reports the callback as
\* sent iff the HTTP response has a 2xx status code.
C36_SuccessIffTwoHundreds ==
    [][inv'.handler \in {"callback_handler", "callback_handler_new"}
        => /\ \A event \in CallbackEvents(Outages.ids), reply \in HttpReplies :
                  (/\ Truthy(Get(event["detail"], "callbackUrl"))
                   /\ Invoke(Outages, "callback_handler", "direct", event,
                             callback_handler(event, reply)))
                  => (inv'.response.body.status = "CALLBACK_SENT"
                         <=> ~DeliveryFailed(reply))
           /\ \A event \in CallbackNewEvents(Outages.ids), reply \in HttpReplies,
                 fault \in Outages.faults \cap {"none", "store"} :
                  (/\ Truthy(Get(event, "callbackUrl"))
                   /\ InvokeNew(Outages, "callback_handler_new",
                                callback_handler_new(event, reply, fault)))
                  => (inv'.response.callbackSent <=> ~DeliveryFailed(reply))]_vars

\* The response of the notifier says that the callback was sent
ReportsSent ==
    \/ inv.handler = "callback_handler"
          /\ inv.response.body.status = "CALLBACK_SENT"
    \/ inv.handler = "callback_handler_new"
          /\ inv.response.callbackSent

\* C38: the notifier reports a callback as sent only if it made an HTTP POST
\* to the callback URL: for an event without callbackUrl it never does.
C38_SentOnlyAfterPost ==
    ReportsSent => \E i \in 1..Len(inv.calls) : inv.calls[i] = "requests.post"

\* C37: when verify_migration_new finds the job COMPLETED or SUCCEEDED and the
\* application healthy, the record becomes VERIFIED_AND_READY and the response
\* says readyForCutover; VERIFICATION_FAILED is written only for an unhealthy
\* application.
C37_DoneAndHealthyIsReady ==
    (/\ inv.handler = "verify_migration_new"
     /\ inv.outcome = "success"
     /\ inv.response.jobStatus \in {"COMPLETED", "SUCCEEDED"})
        => /\ inv.response.healthStatus = "healthy"
                 => /\ StatusOf(store, inv.mid) = "VERIFIED_AND_READY"
                    /\ inv.response.readyForCutover
           /\ StatusOf(store, inv.mid) = "VERIFICATION_FAILED"
                 => inv.response.healthStatus = "unhealthy"

\* C40: an invocation of trigger_migration starts one job, a cutover iff the
\* steps name freeze and are at least three, else a test launch; when the
\* start succeeds the record becomes MIGRATION_IN_PROGRESS with the job under
\* executionDetails.mgn, and when it fails the record is left as it was and a
\* MigrationFailed event is published.
C40_TriggerStartsOneJob ==
    [][inv'.handler = "trigger_migration" =>
        \A event \in TriggerStepEvents(Saga.ids), fault \in Saga.faults \cap TriggerFaults :
            Invoke(Saga, "trigger_migration", "direct", event,
                   trigger_migration(event, fault, TRUE))
            => LET detail  == event["detail"]
                   m       == detail["migrationId"]
                   steps   == GetOr(detail, "steps", << >>)
                   cutover == /\ \E i \in 1..Len(steps) : steps[i] = "freeze"
                              /\ Len(steps) >= 3
               IN  /\ inv'.calls = IF cutover THEN <<"mgn.start_cutover">>
                                    ELSE <<"mgn.start_test_launch">>
                   /\ IF fault # "mgn"
                      THEN /\ StatusOf(store', m) = "MIGRATION_IN_PROGRESS"
                           /\ DetailsOf(store', m)["mgn"].status
                                 = IF cutover THEN "CUTOVER_INITIATED"
                                   ELSE "TEST_LAUNCH_INITIATED"
                           /\ \E j \in jobs' :
                                  /\ j.mid = m
                                  /\ j.kind = IF cutover THEN "cutover" ELSE "test"
                           /\ Cardinality(jobs' \ jobs) <= 1
                      ELSE /\ store' = store
                           /\ jobs' = jobs
                           /\ \E e \in inv'.published :
                                  /\ e.DetailType = "MigrationFailed"
                                  /\ e.Detail["migrationId"] = m
                                  /\ e.Detail["errorCode"]
                                        = "MIGRATION_EXECUTION_ERROR"]_vars

\* C40 witness: trigger_migration started a test launch and then a cutover
\* for m1, whose record is in progress with the cutover job
C40_Witness ==
    /\ inv.handler = "trigger_migration"
    /\ inv.calls = <<"mgn.start_cutover">>
    /\ StatusOf(store, "m1") = "MIGRATION_IN_PROGRESS"
    /\ DetailsOf(store, "m1")["mgn"].status = "CUTOVER_INITIATED"
    /\ \E j \in jobs : j.kind = "test"
    /\ \E j \in jobs : j.kind = "cutover"

\* C39: every record in the store carries the descriptive fields and the
\* correlationId that save_migration_state writes, so that no update of the
\* status of an id that has no record brings a partial record into existence.
C39_NoPartialRecord ==
    \A m \in Ids :
        Exists(store, m)
            => \A f \in SetOnce : Has(store[m], f) /\ store[m][f] # NoneVal

====
